---------------------------- MODULE Spec2Model ----------------------------
(***************************************************************************)
(* Model of saadt.pdf.parser._coordinate: the coordinate page parser that  *)
(* rebuilds reading order from per-glyph rectangles.                       *)
(*                                                                         *)
(* Numbers.  Page coordinates and font sizes are integers here.  Every     *)
(* comparison of the source that involves a half (a centre), a quarter (a  *)
(* median of two centres) or a decimal factor (0.7, 1.5, 0.1, 0.3) is      *)
(* stated on both sides multiplied by the common denominator, so that it   *)
(* is decided exactly as the floating point comparison decides it for      *)
(* these inputs.  A token centre is kept doubled (Cx2, Cy2).               *)
(*                                                                         *)
(* Indices.  Sequences are 1-based: token index n of the source is n + 1   *)
(* here, block index k of the source is k + 1 here, and None is 0.         *)
(*                                                                         *)
(* The callers of the engine are modelled after it, each with a            *)
(* specification of its own: the threads of saadt.links.ranking that       *)
(* request the hosts of the links (SpecLocks), the worker pool of          *)
(* saadt.util.mputils that runs the parsers (SpecWorkers), and the phases  *)
(* of the Ranker over its thread pool (SpecRank).                          *)
(***************************************************************************)
EXTENDS Integers, Sequences, FiniteSets, TLC

VARIABLES page,      \* what the rendering backend returns for the page
          tie,       \* order in which the k-d tree lists equidistant points
          tokens,    \* self.tokens
          blocks,    \* self.blocks
          order,     \* the list returned by sort_blocks
          out,       \* the text written to the buffer, one character per element
          err,       \* the exception that left the engine, or "none"
          pc,        \* position of the caller in CoordinatePageParser(page).run()
          returned   \* what the calls of run() made so far returned or raised

VARIABLES links,         \* the host of each link handed to Ranker.rank_links
          domain_locks,  \* RequestPhase._domain_locks, oldest entry first
          lock_owner,    \* every threading.Lock made so far: the future holding it, or 0
          request        \* the futures of the request phase, one per link

VARIABLES kinds,             \* what process_item does with each prepared item
          threads,           \* BaseWorker._threads
          stop_event,        \* ProcessExecutor._stop_event
          dispatch_queue,    \* ProcessExecutor._dispatch_queue
          finished_buffer,   \* what each worker process put on the finished queue and its
                             \* feeder thread has not written yet
          finished_queue,    \* ProcessExecutor._finished_queue, as the main process reads it
          processing_queue,  \* BaseWorker.processing_queue of each worker
          loop,              \* position of each worker in BaseWorker.run
          work,              \* where each item is
          logged,            \* items for which "Exception while processing item" was logged
          main               \* ProcessExecutor.run in the main process

VARIABLES rlinks,       \* the RankedLink of each prepared link: score and breakdown
          futures,      \* the calls of _rank_link submitted to Ranker.executor, oldest first
          phase_index,  \* the phase rank_links is in
          rank,         \* position of rank_links
          skipped,      \* for each link, its RankedLink at the first phase that began with
                        \* its score below 0
          ranked        \* what rank_links returned

\* the engine
parserVars == <<page, tie, tokens, blocks, order, out, err, pc, returned>>

\* RequestPhase under the threads of the ranker
lockVars == <<links, domain_locks, lock_owner, request>>

\* the worker pool
poolVars == <<kinds, threads, stop_event, dispatch_queue, finished_buffer, finished_queue,
              processing_queue, loop, work, logged, main>>

\* the callers of the engine
\* the ranker
rankVars == <<rlinks, futures, phase_index, rank, skipped, ranked>>

callerVars == <<lockVars, poolVars, rankVars>>

vars == <<page, tie, tokens, blocks, order, out, err, pc, returned,
          links, domain_locks, lock_owner, request,
          kinds, threads, stop_event, dispatch_queue, finished_buffer, finished_queue,
          processing_queue, loop, work, logged, main,
          rlinks, futures, phase_index, rank, skipped, ranked>>

\* no ranking is going on
NoRanking ==
    /\ links = <<>>
    /\ domain_locks = <<>>
    /\ lock_owner = <<>>
    /\ request = <<>>

\* no worker pool exists
NoPool ==
    /\ kinds = <<>>
    /\ threads = 0
    /\ stop_event = FALSE
    /\ dispatch_queue = <<>>
    /\ finished_buffer = <<>>
    /\ finished_queue = <<>>
    /\ processing_queue = <<>>
    /\ loop = <<>>
    /\ work = <<>>
    /\ logged = {}
    /\ main = [pc |-> "none"]

\* no page is being parsed
NoParser ==
    /\ page = [text |-> <<>>, layout |-> <<>>, attrs |-> <<>>]
    /\ tie = "lo"
    /\ tokens = <<>>
    /\ blocks = <<>>
    /\ order = <<>>
    /\ out = <<>>
    /\ err = "none"
    /\ pc = "none"
    /\ returned = <<>>

\* no links are being ranked
NoRanker ==
    /\ rlinks = <<>>
    /\ futures = <<>>
    /\ phase_index = 0
    /\ rank = "none"
    /\ skipped = <<>>
    /\ ranked = <<>>

\* no caller is active
NoCallers == NoRanking /\ NoPool /\ NoRanker

-----------------------------------------------------------------------------
(* Arithmetic helpers *)

Abs(a) == IF a < 0 THEN -a ELSE a

Min2(a, b) == IF a < b THEN a ELSE b

Max2(a, b) == IF a > b THEN a ELSE b

Range(s) == {s[n] : n \in DOMAIN s}

SeqContains(s, e) == \E n \in DOMAIN s : s[n] = e

\* del s[n]
DelAt(s, n) == SubSeq(s, 1, n - 1) \o SubSeq(s, n + 1, Len(s))

-----------------------------------------------------------------------------
(* _Token *)

Token(rect, char, font_size) ==
    [x1 |-> rect.x1, y1 |-> rect.y1, x2 |-> rect.x2, y2 |-> rect.y2,
     char |-> char, font_size |-> font_size]

\* twice _Token.center.x and twice _Token.center.y
Cx2(t) == t.x1 + t.x2

Cy2(t) == t.y1 + t.y2

\* twice _Token.dx(other) and twice _Token.dy(other)
TokDx2(t, o) == Abs(t.x1 + t.x2 - o.x1 - o.x2)

TokDy2(t, o) == Abs(t.y1 + t.y2 - o.y1 - o.y2)

\* _Token.__lt__: abs(sc.y - oc.y) < max(font sizes) * 0.7, times 10
TokenLt(t, o) ==
    IF 5 * Abs(Cy2(t) - Cy2(o)) < 7 * Max2(t.font_size, o.font_size)
    THEN Cx2(t) < Cx2(o)
    ELSE Cy2(t) < Cy2(o)

-----------------------------------------------------------------------------
(* CoordinatePageParser.__init__ *)

\* not text[index].strip()
IsSpace(c) == c \in {" ", "\n"}

\* if attrs[attr_index].end_index < index: attr_index += 1
AdvanceCursor(attrs, attr_index, index) ==
    IF attrs[attr_index + 1].end_index < index THEN attr_index + 1 ELSE attr_index

\* for index, rect in enumerate(layout): ...   (index and attr_index as in the
\* source; raised: text[index] or attrs[attr_index] was out of range, IndexError)
RECURSIVE TokenizeLoop(_, _, _, _)
TokenizeLoop(p, index, attr_index, acc) ==
    IF index >= Len(p.layout) THEN [tokens |-> acc, raised |-> FALSE]
    ELSE IF index >= Len(p.text) THEN [tokens |-> acc, raised |-> TRUE]
    ELSE IF IsSpace(p.text[index + 1])
         THEN TokenizeLoop(p, index + 1, attr_index, acc)
         ELSE IF attr_index >= Len(p.attrs) THEN [tokens |-> acc, raised |-> TRUE]
         ELSE LET ai == AdvanceCursor(p.attrs, attr_index, index)
              IN  IF ai >= Len(p.attrs) THEN [tokens |-> acc, raised |-> TRUE]
                  ELSE TokenizeLoop(p, index + 1, ai,
                           Append(acc, Token(p.layout[index + 1], p.text[index + 1],
                                             p.attrs[ai + 1].font_size)))

\* the comparison turned round: fails when the text is the longer one
LayoutMismatchReversed(p) == Len(p.text) > Len(p.layout)

\* any difference in length counts as a mismatch
LayoutMismatchAnyDifference(p) == Len(p.text) # Len(p.layout)

\* len(text) < len(layout)
LayoutMismatch(p) == Len(p.text) < Len(p.layout)

\* list.sort() on a short list (CPython): the leading run is found and, when
\* strictly descending, reversed; the rest is inserted by binary search.

\* count_run: the length of the leading run of s, Len(s) >= 2
RECURSIVE RunLength(_, _, _)
RunLength(s, n, descending) ==
    IF n > Len(s) THEN n - 1
    ELSE IF descending = TokenLt(s[n], s[n - 1]) THEN RunLength(s, n + 1, descending)
    ELSE n - 1

Reverse(s) == [n \in DOMAIN s |-> s[Len(s) + 1 - n]]

\* binarysort's search: where pivot goes among the l..r sorted elements
RECURSIVE BinarySearch(_, _, _, _)
BinarySearch(s, pivot, l, r) ==
    IF l >= r THEN l
    ELSE LET m == l + ((r - l) \div 2)
         IN  IF TokenLt(pivot, s[m + 1])
             THEN BinarySearch(s, pivot, l, m)
             ELSE BinarySearch(s, pivot, m + 1, r)

RECURSIVE SortFrom(_, _)
SortFrom(s, start) ==
    IF start > Len(s) THEN s
    ELSE LET pivot == s[start]
             l == BinarySearch(s, pivot, 0, start - 1)
             moved == SubSeq(s, 1, l) \o <<pivot>> \o SubSeq(s, l + 1, start - 1)
                      \o SubSeq(s, start + 1, Len(s))
         IN  SortFrom(moved, start + 1)

SortTokens(s) ==
    IF Len(s) < 2 THEN s
    ELSE LET descending == TokenLt(s[2], s[1])
             run == RunLength(s, 3, descending)
             s1 == IF descending
                   THEN Reverse(SubSeq(s, 1, run)) \o SubSeq(s, run + 1, Len(s))
                   ELSE s
         IN  SortFrom(s1, run + 1)

-----------------------------------------------------------------------------
(* _Rectangle *)

Rect(x1, y1, x2, y2) == [x1 |-> x1, y1 |-> y1, x2 |-> x2, y2 |-> y2]

\* _Rectangle.combine
Combine(b1, b2) ==
    Rect(Min2(b1.x1, b2.x1), Min2(b1.y1, b2.y1), Max2(b1.x2, b2.x2), Max2(b1.y2, b2.y2))

Height(r) == r.y2 - r.y1

Width(r) == r.x2 - r.x1

Contains(r, o) == r.x1 <= o.x1 /\ r.x2 >= o.x2 /\ r.y1 <= o.y1 /\ r.y2 >= o.y2

\* _Rectangle.dx, _Rectangle.dy: the directional gaps
RectDx(r, o) == Max2(r.x1 - o.x2, o.x1 - r.x2)

RectDy(r, o) == Max2(r.y1 - o.y2, o.y1 - r.y2)

\* the first two components of _Rectangle.distance; the third is 0 exactly
\* when both are 0
DistX(r, o) == Max2(0, RectDx(r, o))

DistY(r, o) == Max2(0, RectDy(r, o))

DistanceIsZero(r, o) == DistX(r, o) = 0 /\ DistY(r, o) = 0

\* four times _Coordinate.dx / _Coordinate.dy of two _Rectangle.center
CenterDx4(r, o) == Abs(r.x1 + r.x2 - o.x1 - o.x2)

CenterDy4(r, o) == Abs(r.y1 + r.y2 - o.y1 - o.y2)

-----------------------------------------------------------------------------
(* _TokenBlock: tokens is the key order of the dict *)

Block(toks, x1, y1, x2, y2) ==
    [tokens |-> toks, x1 |-> x1, y1 |-> y1, x2 |-> x2, y2 |-> y2]

FromToken(i, token) == Block(<<i>>, token.x1, token.y1, token.x2, token.y2)

\* _TokenBlock.add
Add(b, i, token) ==
    Block(IF SeqContains(b.tokens, i) THEN b.tokens ELSE Append(b.tokens, i),
          Min2(b.x1, token.x1), Min2(b.y1, token.y1),
          Max2(b.x2, token.x2), Max2(b.y2, token.y2))

\* an update that keeps only the keys the block had
DictUpdateKeepsOwn(keys, more) == keys

\* dict.update: keys already present keep their place, new keys are appended
DictUpdate(keys, more) ==
    keys \o SelectSeq(more, LAMBDA n : ~SeqContains(keys, n))

\* merge that forgets to extend the lower edge
MergeStaleBottom(b, other) ==
    Block(DictUpdate(b.tokens, other.tokens),
          Min2(b.x1, other.x1), Min2(b.y1, other.y1),
          Max2(b.x2, other.x2), b.y2)

\* _TokenBlock.merge
Merge(b, other) ==
    Block(DictUpdate(b.tokens, other.tokens),
          Min2(b.x1, other.x1), Min2(b.y1, other.y1),
          Max2(b.x2, other.x2), Max2(b.y2, other.y2))

\* _TokenBlock.overlaps, margin = 1
Overlaps(b, other) ==
    LET dx == RectDx(b, other)
        dy == RectDy(b, other)
    IN  IF dx > 0 \/ dy > 0 THEN FALSE ELSE Abs(dx) > 1 \/ Abs(dy) > 1

\* self.tokens[next(iter(b.tokens))].font_size
BlockFs(b) == tokens[b.tokens[1]].font_size

-----------------------------------------------------------------------------
(* spatial.KDTree.query(center, 10, p, distance_upper_bound) over the token *)
(* centres: the indices strictly within the bound, nearest first, at most  *)
(* KNeighbors of them.  Keys: p = 1 gives twice the L1 distance, p = 2     *)
(* four times the squared L2 distance; ub is the bound in the same unit.   *)

KNeighbors == 10

DistKey(p, t, o) ==
    IF p = 1 THEN Abs(Cx2(t) - Cx2(o)) + Abs(Cy2(t) - Cy2(o))
    ELSE (Cx2(t) - Cx2(o)) * (Cx2(t) - Cx2(o)) + (Cy2(t) - Cy2(o)) * (Cy2(t) - Cy2(o))

\* n is listed before m
Nearer(p, t, n, m) ==
    LET dn == DistKey(p, t, tokens[n])
        dm == DistKey(p, t, tokens[m])
    IN  dn < dm \/ (dn = dm /\ IF tie = "lo" THEN n < m ELSE n > m)

RECURSIVE NearestFirst(_, _, _)
NearestFirst(S, p, t) ==
    IF S = {} THEN <<>>
    ELSE LET n == CHOOSE n \in S : \A m \in S \ {n} : Nearer(p, t, n, m)
         IN  <<n>> \o NearestFirst(S \ {n}, p, t)

Query(t, p, ub) ==
    LET within == {n \in DOMAIN tokens : DistKey(p, t, tokens[n]) < ub}
        nn == NearestFirst(within, p, t)
    IN  SubSeq(nn, 1, Min2(Len(nn), KNeighbors))

-----------------------------------------------------------------------------
(* Block formation *)

\* find_block: position of the first block holding the token, 0 for None
RECURSIVE FindBlockFrom(_, _, _)
FindBlockFrom(bs, index, k) ==
    IF k > Len(bs) THEN 0
    ELSE IF SeqContains(bs[k].tokens, index) THEN k
    ELSE FindBlockFrom(bs, index, k + 1)

FindBlock(bs, index) == FindBlockFrom(bs, index, 1)

\* for ni in neighbors: absorb the tokens of the line that are in no block yet
RECURSIVE Absorb(_, _, _, _, _)
Absorb(bs, bi, token, neighbors, n) ==
    IF n > Len(neighbors) THEN bs
    ELSE LET ni == neighbors[n]
             t2 == tokens[ni]
         IN  IF /\ 5 * TokDy2(token, t2) < 7 * token.font_size
                /\ ~SeqContains(bs[bi].tokens, ni)
                /\ FindBlock(bs, ni) = 0
             THEN Absorb([bs EXCEPT ![bi] = Add(@, ni, t2)], bi, token, neighbors, n + 1)
             ELSE Absorb(bs, bi, token, neighbors, n + 1)

\* a choice of the frontier that also takes a neighbor on the frontier's own centre
RECURSIVE NextFrontierOnSameCenter(_, _, _)
NextFrontierOnSameCenter(token, neighbors, n) ==
    IF n > Len(neighbors) THEN 0
    ELSE IF Cx2(tokens[neighbors[n]]) < Cx2(token)
         THEN NextFrontierOnSameCenter(token, neighbors, n + 1)
         ELSE neighbors[n]

\* the first neighbor whose centre lies strictly right of the frontier's, 0 for None
RECURSIVE NextFrontier(_, _, _)
NextFrontier(token, neighbors, n) ==
    IF n > Len(neighbors) THEN 0
    ELSE IF Cx2(tokens[neighbors[n]]) <= Cx2(token)
         THEN NextFrontier(token, neighbors, n + 1)
         ELSE neighbors[n]

\* process_neighbor; bi is the position of `block` in bs
RECURSIVE ProcessNeighbor(_, _, _, _, _)
ProcessNeighbor(bs, bi, start_token, token, neighbors) ==
    IF Len(neighbors) = 0 THEN bs
    ELSE LET bs1 == Absorb(bs, bi, token, neighbors, 1)
             token_i == NextFrontier(token, neighbors, 1)
         IN  IF token_i = 0 THEN bs1
             ELSE LET t == tokens[token_i]
                      nn == Query(t, 2, 16 * t.font_size * t.font_size)
                      next_neighbors ==
                          SelectSeq(nn, LAMBDA n :
                              /\ n # token_i
                              /\ Cx2(tokens[n]) > 2 * t.x1
                              /\ 5 * TokDy2(tokens[n], t) < 7 * t.font_size
                              /\ TokDy2(tokens[n], start_token) < 2 * start_token.font_size)
                  IN  ProcessNeighbor(bs1, bi, start_token, t, next_neighbors)

\* the first neighbor that is in a block already, as a block position; 0 for None
RECURSIVE FirstBlockOf(_, _, _)
FirstBlockOf(bs, neighbors, n) ==
    IF n > Len(neighbors) THEN 0
    ELSE IF FindBlock(bs, neighbors[n]) # 0 THEN FindBlock(bs, neighbors[n])
    ELSE FirstBlockOf(bs, neighbors, n + 1)

\* one iteration of `for current in range(len(self.tokens))`
FormStep(bs, current) ==
    IF FindBlock(bs, current) # 0 THEN bs
    ELSE LET token == tokens[current]
             nn == Query(token, 1, 3 * token.font_size)
             prev_neighbors ==
                 SelectSeq(nn, LAMBDA n :
                     /\ n # current
                     /\ (Cx2(tokens[n]) <= Cx2(token) \/ Cy2(tokens[n]) < Cy2(token))
                     /\ TokDy2(tokens[n], token) < 2 * token.font_size)
             next_neighbors ==
                 SelectSeq(nn, LAMBDA n :
                     /\ n # current
                     /\ Cx2(tokens[n]) > Cx2(token)
                     /\ 5 * TokDy2(tokens[n], token) < 7 * token.font_size)
             found == FirstBlockOf(bs, prev_neighbors, 1)
             bi == IF found = 0 THEN Len(bs) + 1 ELSE found
             bs1 == IF found = 0 THEN Append(bs, FromToken(current, token))
                    ELSE [bs EXCEPT ![found] = Add(@, current, token)]
         IN  IF Len(next_neighbors) > 0
             THEN ProcessNeighbor(bs1, bi, token, token, next_neighbors)
             ELSE bs1

RECURSIVE FormLoop(_, _)
FormLoop(bs, current) ==
    IF current > Len(tokens) THEN bs
    ELSE FormLoop(FormStep(bs, current), current + 1)

\* run() that keeps the blocks an earlier call left in self.blocks
FormBlocksKeepsOld == FormLoop(blocks, 1)

\* self.blocks = [] and the formation loop
FormBlocks == FormLoop(<<>>, 1)

-----------------------------------------------------------------------------
(* Helpers of the merge passes *)

\* the smallest box around the blocks at the given positions
RECURSIVE BoxOf(_, _, _)
BoxOf(bs, indices, n) ==
    IF n = Len(indices) THEN Rect(bs[indices[n]].x1, bs[indices[n]].y1,
                                  bs[indices[n]].x2, bs[indices[n]].y2)
    ELSE Combine(bs[indices[n]], BoxOf(bs, indices, n + 1))

\* check_overlap(indices, [self.blocks[n] for n in indices]).  The generator
\* hands the index k itself to any(), so source index 0 (position 1 here)
\* never counts.
CheckOverlap(bs, indices) ==
    LET temp == BoxOf(bs, indices, 1)
    IN  ~ \E k \in 2..Len(bs) : ~SeqContains(indices, k) /\ DistanceIsZero(bs[k], temp)

\* find_below: the first block of least vertical distance among those that
\* start at or below rect.y2 and share a column with it; 0 for None
FindBelow(bs, rect) ==
    LET cand == {k \in DOMAIN bs : /\ ~Contains(rect, bs[k])
                                   /\ ~(bs[k].y1 < rect.y2)
                                   /\ DistX(bs[k], rect) = 0}
    IN  IF cand = {} THEN 0
        ELSE CHOOSE k \in cand :
                 \A m \in cand : \/ DistY(bs[k], rect) < DistY(bs[m], rect)
                                 \/ (DistY(bs[k], rect) = DistY(bs[m], rect) /\ k <= m)

\* find_above, the mirror image (defined by the class, called by no pass)
FindAbove(bs, rect) ==
    LET cand == {k \in DOMAIN bs : /\ ~Contains(rect, bs[k])
                                   /\ ~(bs[k].y2 > rect.y1)
                                   /\ DistX(bs[k], rect) = 0}
    IN  IF cand = {} THEN 0
        ELSE CHOOSE k \in cand :
                 \A m \in cand : \/ DistY(bs[k], rect) < DistY(bs[m], rect)
                                 \/ (DistY(bs[k], rect) = DistY(bs[m], rect) /\ k <= m)

\* a merge that leaves the merged block in self.blocks
MergeIntoKeepsBlock(bs, i, j) == [bs EXCEPT ![i] = Merge(bs[i], bs[j])]

\* b1.merge(b2); del self.blocks[j]   with b1 = self.blocks[i]
MergeInto(bs, i, j) == DelAt([bs EXCEPT ![i] = Merge(bs[i], bs[j])], j)

-----------------------------------------------------------------------------
(* First pass: merge overlapping blocks *)

RECURSIVE OverlapInner(_, _, _)
OverlapInner(bs, i, j) ==
    IF j > Len(bs) THEN bs
    ELSE IF Overlaps(bs[i], bs[j])
         THEN OverlapInner(MergeInto(bs, i, j), i, j)
         ELSE OverlapInner(bs, i, j + 1)

RECURSIVE OverlapOuter(_, _)
OverlapOuter(bs, i) ==
    IF i > Len(bs) THEN bs
    ELSE OverlapOuter(OverlapInner(bs, i, i + 1), i + 1)

OverlapMerge(bs) == OverlapOuter(bs, 1)

-----------------------------------------------------------------------------
(* "Third pass": merge small pieces that are on the same line *)

\* the inner `while l < len(self.blocks) - 1` loop; n is the position that
\* `l += 1` moves to.  Returns the chain bi and the last value of is_overlap.
RECURSIVE SmallLineChain(_, _, _, _, _, _, _)
SmallLineChain(bs, bi, k, b2, b2_fs, n, is_overlap) ==
    IF n > Len(bs) THEN [bi |-> bi, is_overlap |-> is_overlap]
    ELSE LET io == CheckOverlap(bs, Append(bi, k))
             b3 == bs[n]
         IN  IF 10 * Abs(Height(b2) - Height(b3)) > 3 * b2_fs
             THEN SmallLineChain(bs, bi, k, b2, b2_fs, n + 1, io)
             ELSE IF CenterDy4(b2, b3) < 4 /\ CheckOverlap(bs, Append(bi, n))
                  THEN IF io /\ ~CheckOverlap(bs, bi \o <<n, k>>)
                       THEN [bi |-> bi, is_overlap |-> io]
                       ELSE SmallLineChain(bs, Append(bi, n), k, b2, b2_fs, n + 1, io)
                  ELSE SmallLineChain(bs, bi, k, b2, b2_fs, n + 1, io)

\* for ki in range(len(bs) - 1, 0, -1): bs[ki - 1].merge(bs[ki]); del self.blocks[bi[ki]]
RECURSIVE CommitChain(_, _, _)
CommitChain(bs, bi, ki) ==
    IF ki < 2 THEN bs
    ELSE CommitChain(MergeInto(bs, bi[ki - 1], bi[ki]), bi, ki - 1)

RECURSIVE SmallLineInner(_, _, _, _)
SmallLineInner(bs, i, j, b1_fs) ==
    IF j > Len(bs) THEN bs
    ELSE LET b1 == bs[i]
             b2 == bs[j]
             b2_fs == BlockFs(b2)
         IN  IF Height(b2) > 2 * b2_fs THEN SmallLineInner(bs, i, j + 1, b1_fs)
             ELSE IF CenterDy4(b1, b2) < 4 /\ CheckOverlap(bs, <<i, j>>)
                  THEN IF FindBelow(bs, b1) # FindBelow(bs, b2)
                       THEN SmallLineInner(bs, i, j + 1, b1_fs)
                       ELSE LET k == FindBelow(bs, Combine(b1, b2))
                            IN  IF k # 0 /\ RectDy(bs[k], b1) < 2 * b1_fs
                                THEN LET c == SmallLineChain(bs, <<i, j>>, k, b2, b2_fs,
                                                             j + 1, FALSE)
                                     IN  IF c.is_overlap
                                         THEN SmallLineInner(
                                                  CommitChain(bs, c.bi, Len(c.bi)),
                                                  i, j, b1_fs)
                                         ELSE SmallLineInner(bs, i, j + 1, b1_fs)
                                ELSE SmallLineInner(bs, i, j + 1, b1_fs)
                  ELSE SmallLineInner(bs, i, j + 1, b1_fs)

RECURSIVE SmallLineOuter(_, _)
SmallLineOuter(bs, i) ==
    IF i > Len(bs) THEN bs
    ELSE IF Height(bs[i]) > 2 * BlockFs(bs[i]) THEN SmallLineOuter(bs, i + 1)
         ELSE SmallLineOuter(SmallLineInner(bs, i, i + 1, BlockFs(bs[i])), i + 1)

SmallLineMerge(bs) == SmallLineOuter(bs, 1)

-----------------------------------------------------------------------------
(* "Second pass": paragraph merging *)

RECURSIVE ParagraphInner(_, _, _)
ParagraphInner(bs, i, j) ==
    IF j > Len(bs) THEN bs
    ELSE IF /\ DistX(bs[i], bs[j]) = 0
            /\ DistY(bs[i], bs[j]) < BlockFs(bs[j])
            /\ CheckOverlap(bs, <<i, j>>)
         THEN ParagraphInner(MergeInto(bs, i, j), i, j)
         ELSE ParagraphInner(bs, i, j + 1)

RECURSIVE ParagraphOuter(_, _)
ParagraphOuter(bs, i) ==
    IF i > Len(bs) THEN bs
    ELSE ParagraphOuter(ParagraphInner(bs, i, i + 1), i + 1)

ParagraphMerge(bs) == ParagraphOuter(bs, 1)

-----------------------------------------------------------------------------
(* Merge column blocks forward *)

ColumnCondition(b1, b2, font_size) ==
    \/ CenterDx4(b1, b2) < 4 * font_size /\ DistY(b1, b2) < font_size
    \/ /\ (Abs(b1.x1 - b2.x1) < font_size \/ Abs(b1.x2 - b2.x2) < font_size)
       /\ DistY(b1, b2) < font_size * 2

\* after a merge i stays what it was (i -= 1, then i += 1), also when the
\* deleted block lay before b1
RECURSIVE ColumnLoop(_, _)
ColumnLoop(bs, i) ==
    IF i > Len(bs) THEN bs
    ELSE LET j == FindBelow(bs, bs[i])
         IN  IF /\ j # 0
                /\ ColumnCondition(bs[i], bs[j], BlockFs(bs[j]))
                /\ CheckOverlap(bs, <<i, j>>)
             THEN ColumnLoop(MergeInto(bs, i, j), i)
             ELSE ColumnLoop(bs, i + 1)

ColumnForwardMerge(bs) == ColumnLoop(bs, 1)

-----------------------------------------------------------------------------
(* Merge big same-width columns *)

RECURSIVE BigColumnLoop(_, _)
BigColumnLoop(bs, i) ==
    IF i > Len(bs) THEN bs
    ELSE IF Height(bs[i]) < 2 * BlockFs(bs[i]) THEN BigColumnLoop(bs, i + 1)
    ELSE LET j == FindBelow(bs, bs[i])
         IN  IF j = 0 THEN BigColumnLoop(bs, i + 1)
             ELSE LET b1 == bs[i]
                      b2 == bs[j]
                      font_size == BlockFs(b2)
                  IN  IF Height(b2) < 2 * font_size THEN BigColumnLoop(bs, i + 1)
                      ELSE IF /\ Abs(b1.x1 - b2.x1) < font_size
                              /\ 10 * Abs(b1.x2 - b2.x2) < 7 * font_size
                              /\ CheckOverlap(bs, <<i, j>>)
                           THEN BigColumnLoop(MergeInto(bs, i, j), i)
                           ELSE BigColumnLoop(bs, i + 1)

BigColumnMerge(bs) == BigColumnLoop(bs, 1)

-----------------------------------------------------------------------------
(* Horizontal merging *)

\* find horizontal candidate: while k < len(self.blocks)
RECURSIVE HorizontalCandidates(_, _, _, _)
HorizontalCandidates(bs, i, j, k) ==
    IF k > Len(bs) THEN bs
    ELSE IF /\ DistY(bs[j], bs[k]) = 0
            /\ DistX(bs[i], bs[k]) = 0
            /\ CheckOverlap(bs, <<j, k>>)
         THEN HorizontalCandidates(MergeInto(bs, j, k), i, j, k)
         ELSE HorizontalCandidates(bs, i, j, k + 1)

HorizontalCondition(b1, b2, font_size) ==
    /\ DistX(b1, b2) = 0
    /\ (10 * b1.x1 - 7 * font_size < 10 * b2.x1 \/ CenterDx4(b1, b2) < 4 * font_size)
    /\ 10 * b1.x2 + 7 * font_size > 10 * b2.x2
    /\ DistY(b1, b2) < font_size * 2

RECURSIVE HorizontalInner(_, _, _, _)
HorizontalInner(bs, i, j, merged) ==
    IF j > Len(bs) THEN [blocks |-> bs, merged |-> merged]
    ELSE IF HorizontalCondition(bs[i], bs[j], BlockFs(bs[j]))
         THEN LET bs1 == HorizontalCandidates(bs, i, j, j + 1)
              IN  IF CheckOverlap(bs1, <<i, j>>)
                  THEN HorizontalInner(MergeInto(bs1, i, j), i, j, TRUE)
                  ELSE HorizontalInner(bs1, i, j + 1, merged)
         ELSE HorizontalInner(bs, i, j + 1, merged)

RECURSIVE HorizontalOuter(_, _)
HorizontalOuter(bs, i) ==
    IF i > Len(bs) THEN bs
    ELSE LET r == HorizontalInner(bs, i, i + 1, FALSE)
         IN  HorizontalOuter(r.blocks, IF r.merged THEN i ELSE i + 1)

HorizontalMerge(bs) == HorizontalOuter(bs, 1)

\* the six passes in the order of run()
MergePasses(bs) ==
    HorizontalMerge(BigColumnMerge(ColumnForwardMerge(
        ParagraphMerge(SmallLineMerge(OverlapMerge(bs))))))

-----------------------------------------------------------------------------
(* sort_blocks.  The lists hold block positions in self.blocks. *)

MinY1(bs) == CHOOSE y \in {bs[k].y1 : k \in DOMAIN bs} : \A k \in DOMAIN bs : y <= bs[k].y1

MaxY2(bs) == CHOOSE y \in {bs[k].y2 : k \in DOMAIN bs} : \A k \in DOMAIN bs : y >= bs[k].y2

\* block.height() < 3 * font_size or block.x1 < page_center < block.x2
ShortOrStraddling(b) ==
    \/ Height(b) < 3 * BlockFs(b)
    \/ (2 * b.x1 < page.width /\ page.width < 2 * b.x2)

Region(bs, k) ==
    LET block == bs[k]
    IN  IF block.y1 = MinY1(bs) /\ ShortOrStraddling(block) THEN "header"
        ELSE IF block.y2 = MaxY2(bs) /\ ShortOrStraddling(block) THEN "footer"
        ELSE IF 2 * block.x2 < page.width THEN "left"
        ELSE IF 2 * block.x1 > page.width THEN "right"
        ELSE "center"

\* the blocks of one region, in the order of self.blocks
RegionList(bs, region) ==
    SelectSeq([k \in DOMAIN bs |-> k], LAMBDA k : Region(bs, k) = region)

\* one round of the reclassification loop per center block
RECURSIVE Reclassify(_, _, _, _, _, _)
Reclassify(bs, center, n, min_y, max_y, acc) ==
    IF n > Len(center) THEN acc
    ELSE LET block == bs[center[n]]
         IN  IF block.y2 <= min_y.left /\ block.y2 <= min_y.right
             THEN Reclassify(bs, center, n + 1, min_y, max_y,
                             [acc EXCEPT !.header = Append(@, center[n])])
             ELSE IF block.y1 >= max_y.left /\ block.y1 >= max_y.right
             THEN Reclassify(bs, center, n + 1, min_y, max_y,
                             [acc EXCEPT !.new_footer = Append(@, center[n])])
             ELSE Reclassify(bs, center, n + 1, min_y, max_y,
                             [acc EXCEPT !.center = Append(@, center[n])])

\* b2.y2 <= b1.y1 + 1
EndsAbove(bs, k2, k1) == bs[k2].y2 <= bs[k1].y1 + 1

\* b1.y1 < b2.center.y < b1.y2
CenterInside(bs, k2, k1) ==
    2 * bs[k1].y1 < bs[k2].y1 + bs[k2].y2 /\ bs[k2].y1 + bs[k2].y2 < 2 * bs[k1].y2

\* threading that deletes the left blocks beside a center block from `left`
\* without appending them to new_center
RECURSIVE ThreadDropsLeftInside(_, _, _, _, _, _)
ThreadDropsLeftInside(bs, center, n, left, right, new_center) ==
    IF n > Len(center)
    THEN [center |-> new_center, left |-> left, right |-> right]
    ELSE LET b1 == center[n]
             l_above  == SelectSeq(left, LAMBDA k : EndsAbove(bs, k, b1))
             left1    == SelectSeq(left, LAMBDA k : ~EndsAbove(bs, k, b1))
             r_above  == SelectSeq(right, LAMBDA k : EndsAbove(bs, k, b1))
             right1   == SelectSeq(right, LAMBDA k : ~EndsAbove(bs, k, b1))
             left2    == SelectSeq(left1, LAMBDA k : ~CenterInside(bs, k, b1))
             r_inside == SelectSeq(right1, LAMBDA k : CenterInside(bs, k, b1))
             right2   == SelectSeq(right1, LAMBDA k : ~CenterInside(bs, k, b1))
         IN  ThreadDropsLeftInside(bs, center, n + 1, left2, right2,
                                   new_center \o l_above \o r_above \o <<b1>> \o r_inside)

\* threading that leaves the left blocks ending above a center block in `left`
RECURSIVE ThreadKeepsLeftAbove(_, _, _, _, _, _)
ThreadKeepsLeftAbove(bs, center, n, left, right, new_center) ==
    IF n > Len(center)
    THEN [center |-> new_center, left |-> left, right |-> right]
    ELSE LET b1 == center[n]
             r_above  == SelectSeq(right, LAMBDA k : EndsAbove(bs, k, b1))
             right1   == SelectSeq(right, LAMBDA k : ~EndsAbove(bs, k, b1))
             l_inside == SelectSeq(left, LAMBDA k : CenterInside(bs, k, b1))
             left2    == SelectSeq(left, LAMBDA k : ~CenterInside(bs, k, b1))
             r_inside == SelectSeq(right1, LAMBDA k : CenterInside(bs, k, b1))
             right2   == SelectSeq(right1, LAMBDA k : ~CenterInside(bs, k, b1))
         IN  ThreadKeepsLeftAbove(bs, center, n + 1, left2, right2,
                                  new_center \o r_above \o l_inside \o <<b1>> \o r_inside)

\* one round of the threading loop per remaining center block
RECURSIVE Thread(_, _, _, _, _, _)
Thread(bs, center, n, left, right, new_center) ==
    IF n > Len(center)
    THEN [center |-> new_center, left |-> left, right |-> right]
    ELSE LET b1 == center[n]
             l_above  == SelectSeq(left, LAMBDA k : EndsAbove(bs, k, b1))
             left1    == SelectSeq(left, LAMBDA k : ~EndsAbove(bs, k, b1))
             r_above  == SelectSeq(right, LAMBDA k : EndsAbove(bs, k, b1))
             right1   == SelectSeq(right, LAMBDA k : ~EndsAbove(bs, k, b1))
             l_inside == SelectSeq(left1, LAMBDA k : CenterInside(bs, k, b1))
             left2    == SelectSeq(left1, LAMBDA k : ~CenterInside(bs, k, b1))
             r_inside == SelectSeq(right1, LAMBDA k : CenterInside(bs, k, b1))
             right2   == SelectSeq(right1, LAMBDA k : ~CenterInside(bs, k, b1))
         IN  Thread(bs, center, n + 1, left2, right2,
                    new_center \o l_above \o r_above \o l_inside \o <<b1>> \o r_inside)

\* min_left_y, min_right_y and max_left_y, max_right_y
ColumnTops(bs) ==
    LET left  == RegionList(bs, "left")
        right == RegionList(bs, "right")
    IN  [left  |-> IF Len(left) = 0 THEN page.height ELSE bs[left[1]].y1,
         right |-> IF Len(right) = 0 THEN page.height ELSE bs[right[1]].y1]

ColumnBottoms(bs) ==
    LET left  == RegionList(bs, "left")
        right == RegionList(bs, "right")
    IN  [left  |-> IF Len(left) = 0 THEN 0 ELSE bs[left[Len(left)]].y2,
         right |-> IF Len(right) = 0 THEN 0 ELSE bs[right[Len(right)]].y2]

\* header, new_footer and center after the reclassification loop
Reclassified(bs) ==
    Reclassify(bs, RegionList(bs, "center"), 1, ColumnTops(bs), ColumnBottoms(bs),
               [header |-> RegionList(bs, "header"), new_footer |-> <<>>, center |-> <<>>])

\* a result that puts the right column before the left one
SortBlocksRightFirst(bs) ==
    LET r == Reclassified(bs)
        t == IF Len(r.center) > 0
             THEN Thread(bs, r.center, 1, RegionList(bs, "left"), RegionList(bs, "right"), <<>>)
             ELSE [center |-> r.center, left |-> RegionList(bs, "left"),
                   right |-> RegionList(bs, "right")]
    IN  r.header \o t.center \o t.right \o t.left
        \o (r.new_footer \o RegionList(bs, "footer"))

\* sort_blocks: positions in self.blocks, in the order of the returned list
SortBlocks(bs) ==
    LET r == Reclassified(bs)
        t == IF Len(r.center) > 0
             THEN Thread(bs, r.center, 1, RegionList(bs, "left"), RegionList(bs, "right"), <<>>)
             ELSE [center |-> r.center, left |-> RegionList(bs, "left"),
                   right |-> RegionList(bs, "right")]
    IN  r.header \o t.center \o t.left \o t.right
        \o (r.new_footer \o RegionList(bs, "footer"))

-----------------------------------------------------------------------------
(* Emission *)

\* bisect.insort
RECURSIVE Insort(_, _)
Insort(s, v) ==
    IF Len(s) = 0 THEN <<v>>
    ELSE IF v < s[Len(s)] THEN Append(Insort(SubSeq(s, 1, Len(s) - 1), v), s[Len(s)])
    ELSE Append(s, v)

RECURSIVE SortInts(_)
SortInts(s) == IF Len(s) = 0 THEN <<>> ELSE Insort(SortInts(Tail(s)), Head(s))

\* twice np.median of a non-empty list
Median2(s) ==
    LET sorted == SortInts(s)
        n == Len(s)
    IN  IF n % 2 = 1 THEN 2 * sorted[(n + 1) \div 2]
        ELSE sorted[n \div 2] + sorted[(n \div 2) + 1]

\* enter_special_script: ldy4 is four times ldy, lfs2 twice the line's median font size
EnterSpecialScript(token, ldy4, lfs2) ==
    /\ page.escape
    /\ ldy4 # 0
    /\ 8 < ldy4
    /\ 10 * ldy4 < 28 * token.font_size
    /\ 2 * token.font_size < lfs2

\* exit_special_script
ExitSpecialScript(prev_token, token, ldy4) ==
    /\ page.escape
    /\ TokDy2(token, prev_token) > 4
    /\ 8 > ldy4
    /\ token.font_size > prev_token.font_size

\* a space before every token that starts right of the previous token's end
SpaceBeforeAnyGap(prev_token, token) == prev_token.x2 < token.x1

\* prev_token.x2 < token.x1 and token.x1 - prev_token.x2 > token.font_size * 0.1
SpaceBefore(prev_token, token) ==
    prev_token.x2 < token.x1 /\ 10 * (token.x1 - prev_token.x2) > token.font_size

\* a loop that returns the result without closing a run still open at the end
RECURSIVE WriteLineLoopLeavesOpen(_, _, _, _, _, _, _)
WriteLineLoopLeavesOpen(line, n, prev_token, in_specialchars, line_height4, line_fs2, result) ==
    IF n > Len(line)
    THEN result
    ELSE LET token == line[n]
             ldy4 == Abs(2 * Cy2(token) - line_height4)
             closes == in_specialchars /\ ExitSpecialScript(prev_token, token, ldy4)
             in1 == in_specialchars /\ ~closes
             r1 == IF closes THEN Append(result, "]") ELSE result
             r2 == IF SpaceBefore(prev_token, token) THEN Append(r1, " ") ELSE r1
             opens == ~in1 /\ EnterSpecialScript(token, ldy4, line_fs2)
             r3 == IF opens THEN Append(r2, "[") ELSE r2
         IN  WriteLineLoopLeavesOpen(line, n + 1, token, in1 \/ opens, line_height4,
                                     line_fs2, Append(r3, token.char))

\* the loop of write_line over the tokens of one line
RECURSIVE WriteLineLoop(_, _, _, _, _, _, _)
WriteLineLoop(line, n, prev_token, in_specialchars, line_height4, line_fs2, result) ==
    IF n > Len(line)
    THEN IF in_specialchars THEN Append(result, "]") ELSE result
    ELSE LET token == line[n]
             ldy4 == Abs(2 * Cy2(token) - line_height4)
             closes == in_specialchars /\ ExitSpecialScript(prev_token, token, ldy4)
             in1 == in_specialchars /\ ~closes
             r1 == IF closes THEN Append(result, "]") ELSE result
             r2 == IF SpaceBefore(prev_token, token) THEN Append(r1, " ") ELSE r1
             opens == ~in1 /\ EnterSpecialScript(token, ldy4, line_fs2)
             r3 == IF opens THEN Append(r2, "[") ELSE r2
         IN  WriteLineLoop(line, n + 1, token, in1 \/ opens, line_height4, line_fs2,
                           Append(r3, token.char))

\* write_line: the text it writes to the buffer
WriteLine(line) ==
    IF Len(line) = 0 THEN <<>>
    ELSE WriteLineLoop(line, 1, line[1], FALSE,
                       Median2([n \in DOMAIN line |-> Cy2(line[n])]),
                       Median2([n \in DOMAIN line |-> line[n].font_size]),
                       <<>>)

Newlines(n) == [k \in 1..n |-> "\n"]

\* a line break is due before the token
LineBreak(prev_token, token) ==
    /\ 5 * TokDy2(prev_token, token) > 7 * token.font_size
    /\ TokDx2(prev_token, token) > 2 * token.font_size

\* max(1, min(3, math.floor(dy / (token.font_size * 0.7)))), font_size > 0;
\* h2 is twice line_height
NewlineCount(token, h2) ==
    Max2(1, Min2(3, (5 * Abs(Cy2(token) - h2)) \div (7 * token.font_size)))

\* `for i in block.tokens` of run(): st holds buffer, line, heights (doubled),
\* prev_token and whether the division by font_size * 0.7 raised
RECURSIVE EmitTokens(_, _, _)
EmitTokens(b, n, st) ==
    IF st.raised \/ n > Len(b.tokens) THEN st
    ELSE LET token == tokens[b.tokens[n]]
             h2 == st.heights[(Len(st.heights) \div 2) + 1]
             brk == LineBreak(st.prev_token, token)
         IN  IF brk /\ token.font_size = 0
             THEN [st EXCEPT !.raised = TRUE,
                             !.buffer = @ \o WriteLine(st.line)]
             ELSE EmitTokens(b, n + 1,
                    [buffer |-> IF brk
                                THEN st.buffer \o WriteLine(st.line)
                                     \o Newlines(NewlineCount(token, h2))
                                ELSE st.buffer,
                     line |-> IF brk THEN <<token>> ELSE Append(st.line, token),
                     heights |-> IF brk THEN <<Cy2(token)>>
                                 ELSE Insort(st.heights, Cy2(token)),
                     prev_token |-> token,
                     raised |-> FALSE])

\* the body of `for block in blocks` for one block, appended to the buffer
EmitBlock(b, buffer) ==
    LET first == tokens[b.tokens[1]]
        st == EmitTokens(b, 1, [buffer |-> buffer, line |-> <<>>,
                                heights |-> <<Cy2(first)>>, prev_token |-> first,
                                raised |-> FALSE])
    IN  IF st.raised THEN st
        ELSE [st EXCEPT !.buffer = @ \o WriteLine(st.line) \o Newlines(3)]

RECURSIVE EmitBlocks(_, _, _, _)
EmitBlocks(bs, ord, n, buffer) ==
    IF n > Len(ord) THEN [buffer |-> buffer, raised |-> FALSE]
    ELSE LET st == EmitBlock(bs[ord[n]], buffer)
         IN  IF st.raised THEN [buffer |-> st.buffer, raised |-> TRUE]
             ELSE EmitBlocks(bs, ord, n + 1, st.buffer)

-----------------------------------------------------------------------------
(* Pages the rendering backend can hand over *)

MaxTokens == 3

PageWidth == 40

PageHeight == 40

Chars == <<"a", "b", "c", "d", "e">>

\* glyph boxes <<x1, y1, x2, y2>>: small marks, square glyphs, tall strokes
\* and wide bars, left of, right of and across the middle of the page
GlyphBoxes ==
    {<<8, 2, 9, 3>>, <<8, 6, 9, 7>>, <<8, 12, 9, 13>>, <<8, 6, 14, 12>>,
     <<18, 10, 20, 18>>, <<24, 0, 26, 8>>, <<12, 0, 32, 4>>, <<12, 10, 32, 14>>,
     <<2, 2, 8, 8>>, <<14, 6, 14, 12>>}

GlyphFontSizes == {2}

Glyphs ==
    {[x1 |-> g[1], y1 |-> g[2], x2 |-> g[3], y2 |-> g[4], font_size |-> f] :
        g \in GlyphBoxes, f \in GlyphFontSizes}

\* a page of visible characters only, one attribute run per character
GlyphPage(gs) ==
    [text   |-> [n \in DOMAIN gs |-> Chars[n]],
     layout |-> [n \in DOMAIN gs |-> Rect(gs[n].x1, gs[n].y1, gs[n].x2, gs[n].y2)],
     attrs  |-> [n \in DOMAIN gs |-> [end_index |-> n - 1, font_size |-> gs[n].font_size]],
     width  |-> PageWidth,
     height |-> PageHeight,
     escape |-> TRUE]

GlyphPages == {GlyphPage(gs) : gs \in UNION {[1..n -> Glyphs] : n \in 0..MaxTokens}}

(* Pages of running text: visible characters and blanks on one baseline,    *)
(* with a rectangle array that may be shorter or longer than the text, and *)
(* run-length attributes in which the font size changes at every run.      *)

MaxText == 4

TextChars == {"x", " "}

TextFontSizes == {4, 6}

TextRect(index) == Rect(3 * index, 10, 3 * index + 3, 14)

RECURSIVE Ascending(_)
Ascending(S) ==
    IF S = {} THEN <<>>
    ELSE LET m == CHOOSE m \in S : \A n \in S : m <= n
         IN  <<m>> \o Ascending(S \ {m})

\* the runs end at the indices of `cuts` and at the last character
TextAttrs(n, cuts, f0) ==
    LET ends == Ascending(cuts \cup {n - 1})
    IN  [r \in DOMAIN ends |->
            [end_index |-> ends[r],
             font_size |-> IF r % 2 = 1 THEN f0
                           ELSE CHOOSE f \in TextFontSizes : f # f0]]

TextPage(text, m, attrs) ==
    [text   |-> text,
     layout |-> [n \in 1..m |-> TextRect(n - 1)],
     attrs  |-> attrs,
     width  |-> PageWidth,
     height |-> PageHeight,
     escape |-> TRUE]

TextPages ==
    {TextPage(<<>>, m, <<>>) : m \in 0..1}
    \cup UNION {
        {TextPage(text, m, TextAttrs(n, cuts, f0)) :
            text \in [1..n -> TextChars], m \in 0..(n + 1),
            cuts \in SUBSET (0..(n - 2)), f0 \in TextFontSizes} : n \in 1..MaxText}

(* A base of one or two glyphs at font size 10 followed immediately by a   *)
(* smaller glyph at font size 6 whose centre is 3 units above or below.    *)

ScriptOffsets == {-3, 3}

ScriptPage(nb, off, escape) ==
    [text   |-> IF nb = 1 THEN <<"x", "2">> ELSE <<"x", "y", "2">>,
     layout |-> [n \in 1..nb |-> Rect(5 + 5 * n, 20, 10 + 5 * n, 30)]
                \o <<Rect(10 + 5 * nb, 22 + off, 13 + 5 * nb, 28 + off)>>,
     attrs  |-> <<[end_index |-> nb - 1, font_size |-> 10],
                  [end_index |-> nb, font_size |-> 6]>>,
     width  |-> PageWidth,
     height |-> PageHeight,
     escape |-> escape]

ScriptPages ==
    {ScriptPage(nb, off, escape) : nb \in 1..2, off \in ScriptOffsets, escape \in BOOLEAN}

\* a raised or lowered glyph at font size 6 between two glyphs at font size 10
ScriptMidPage(off, escape) ==
    [text   |-> <<"x", "2", "y">>,
     layout |-> <<Rect(10, 20, 15, 30), Rect(15, 22 + off, 18, 28 + off),
                  Rect(18, 20, 23, 30)>>,
     attrs  |-> <<[end_index |-> 0, font_size |-> 10],
                  [end_index |-> 1, font_size |-> 6],
                  [end_index |-> 2, font_size |-> 10]>>,
     width  |-> PageWidth,
     height |-> PageHeight,
     escape |-> escape]

ScriptMidPages ==
    {ScriptMidPage(off, escape) : off \in ScriptOffsets, escape \in BOOLEAN}

(* Two-column pages: a header across the top, a block left and a block     *)
(* right of the middle of the page, and a footer across the bottom.        *)

HeaderBoxes == {<<12, 0, 32, 4>>, <<4, 0, 36, 3>>}

LeftBoxes == {<<2, 10, 8, 16>>, <<4, 18, 10, 24>>, <<2, 8, 8, 22>>}

RightBoxes == {<<24, 10, 30, 16>>, <<26, 18, 32, 24>>, <<24, 8, 30, 22>>}

FooterBoxes == {<<12, 30, 32, 34>>, <<4, 36, 36, 39>>}

ColumnPages ==
    {GlyphPage([n \in 1..4 |->
                   LET g == <<h, l, r, f>>[n]
                   IN  [x1 |-> g[1], y1 |-> g[2], x2 |-> g[3], y2 |-> g[4], font_size |-> f2]]) :
        h \in HeaderBoxes, l \in LeftBoxes, r \in RightBoxes, f \in FooterBoxes,
        f2 \in GlyphFontSizes}

(* Words at font size 10 on one baseline at y = 100: glyphs of one width     *)
(* side by side, and a gap between two words.                               *)

WordGaps == 0..3

GlyphWidths == {5, 10}

\* word[n] is the number of the word the n-th character belongs to
WordPage(text, word, gap, w) ==
    [text   |-> text,
     layout |-> [n \in DOMAIN text |->
                    Rect(10 + w * (n - 1) + gap * (word[n] - 1), 100,
                         10 + w * n + gap * (word[n] - 1), 110)],
     attrs  |-> <<[end_index |-> Len(text) - 1, font_size |-> 10]>>,
     width  |-> 3 * PageWidth,
     height |-> 3 * PageHeight,
     escape |-> TRUE]

TwoLetters(gap, w) == WordPage(<<"P", "D">>, <<1, 2>>, gap, w)

TwoWords(gap, w) ==
    WordPage(<<"P", "D", "F", "P", "a", "r", "s", "e", "r">>,
             <<1, 1, 1, 2, 2, 2, 2, 2, 2>>, gap, w)

WordPages ==
    {TwoLetters(gap, w) : gap \in WordGaps, w \in GlyphWidths}
        \cup {TwoWords(gap, w) : gap \in WordGaps, w \in GlyphWidths}

(* A stack of three glyphs in one column: a wide one, a narrow one below    *)
(* its left part and a wide one at the bottom.                             *)

StackBoxes == {<<10, 13, 20, 19>>, <<12, 22, 13, 26>>, <<13, 28, 19, 36>>}

StackPages ==
    {GlyphPage(gs) :
        gs \in [1..Cardinality(StackBoxes) ->
                   {[x1 |-> g[1], y1 |-> g[2], x2 |-> g[3], y2 |-> g[4], font_size |-> f] :
                       g \in StackBoxes, f \in GlyphFontSizes}]}

(* Pieces of one line: a wide glyph at font size 4, a small mark right of   *)
(* it whose center is 1.5 units higher, and a glyph below the two.         *)

LinePieces ==
    {[x1 |-> 11, y1 |-> 2, x2 |-> 21, y2 |-> 6, font_size |-> 4],
     [x1 |-> 26, y1 |-> 2, x2 |-> 27, y2 |-> 3, font_size |-> 2],
     [x1 |-> 24, y1 |-> 7, x2 |-> 25, y2 |-> 10, font_size |-> 2]}

LinePiecePages == {GlyphPage(gs) : gs \in [1..Cardinality(LinePieces) -> LinePieces]}

(* Three fragments of one line, the third far right of the first two, and   *)
(* a block below the first two only.                                       *)

ChainPieces ==
    {[x1 |-> 7, y1 |-> 4, x2 |-> 9, y2 |-> 7, font_size |-> 2],
     [x1 |-> 10, y1 |-> 5, x2 |-> 12, y2 |-> 7, font_size |-> 2],
     [x1 |-> 19, y1 |-> 5, x2 |-> 23, y2 |-> 7, font_size |-> 2],
     [x1 |-> 9, y1 |-> 10, x2 |-> 11, y2 |-> 11, font_size |-> 4]}

\* the four pieces in every order of the text
ChainPages ==
    {GlyphPage(gs) : gs \in {h \in [1..Cardinality(ChainPieces) -> ChainPieces] :
                                \A m, n \in DOMAIN h : m # n => h[m] # h[n]}}

(* Pages with glyphs whose attribute run gives font size 0.                 *)

MaxZeroFont == 2

ZeroFontBoxes == {<<8, 6, 9, 7>>, <<2, 2, 8, 8>>, <<8, 6, 14, 12>>, <<14, 6, 14, 12>>}

ZeroFontGlyphs ==
    {[x1 |-> g[1], y1 |-> g[2], x2 |-> g[3], y2 |-> g[4], font_size |-> f] :
        g \in ZeroFontBoxes, f \in {0} \cup GlyphFontSizes}

ZeroFontPages ==
    {GlyphPage(gs) : gs \in {h \in UNION {[1..n -> ZeroFontGlyphs] : n \in 1..MaxZeroFont} :
                                \E n \in DOMAIN h : h[n].font_size = 0}}

\* calls of run() on one parser
MaxRuns == 2

(* Two glyphs side by side in the right half of the page, the left one      *)
(* taller than the right one at both ends.                                 *)

ShelfPieces ==
    {[x1 |-> 36, y1 |-> 8, x2 |-> 36, y2 |-> 10, font_size |-> 2],
     [x1 |-> 26, y1 |-> 3, x2 |-> 27, y2 |-> 11, font_size |-> 2]}

ShelfPages == {GlyphPage(gs) : gs \in [1..Cardinality(ShelfPieces) -> ShelfPieces]}

(* A left block beside the first of two blocks across the page centre and   *)
(* above the second one, and a right block beside the second.              *)

ThreadPieces ==
    {[x1 |-> 0, y1 |-> 7, x2 |-> 8, y2 |-> 16, font_size |-> 2],
     [x1 |-> 14, y1 |-> 12, x2 |-> 22, y2 |-> 13, font_size |-> 2],
     [x1 |-> 17, y1 |-> 29, x2 |-> 22, y2 |-> 32, font_size |-> 2],
     [x1 |-> 26, y1 |-> 26, x2 |-> 30, y2 |-> 36, font_size |-> 2]}

\* the four pieces in every order of the text
ThreadPages ==
    {GlyphPage(gs) : gs \in {h \in [1..Cardinality(ThreadPieces) -> ThreadPieces] :
                                \A m, n \in DOMAIN h : m # n => h[m] # h[n]}}

(* Three glyphs on a stair descending to the left: neighbours are one unit  *)
(* apart in height, the outer two are two units apart.                     *)

StairPieces ==
    {[x1 |-> 29, y1 |-> 9, x2 |-> 31, y2 |-> 11, font_size |-> 2],
     [x1 |-> 19, y1 |-> 10, x2 |-> 21, y2 |-> 12, font_size |-> 2],
     [x1 |-> 9, y1 |-> 11, x2 |-> 11, y2 |-> 13, font_size |-> 2]}

\* the three pieces in every order of the text
StairPages ==
    {GlyphPage(gs) : gs \in {h \in [1..Cardinality(StairPieces) -> StairPieces] :
                                \A m, n \in DOMAIN h : m # n => h[m] # h[n]}}

(* Three adjoining glyphs of one line, each of which may occur twice or      *)
(* three times on the same place.                                          *)

TwinPieces ==
    {[x1 |-> 10, y1 |-> 10, x2 |-> 12, y2 |-> 12, font_size |-> 2],
     [x1 |-> 12, y1 |-> 10, x2 |-> 14, y2 |-> 12, font_size |-> 2],
     [x1 |-> 14, y1 |-> 10, x2 |-> 16, y2 |-> 12, font_size |-> 2]}

TwinPages == {GlyphPage(gs) : gs \in [1..Cardinality(TwinPieces) -> TwinPieces]}

Pages == GlyphPages \cup TextPages \cup ScriptPages \cup ScriptMidPages \cup ZeroFontPages
         \cup ColumnPages \cup WordPages \cup StackPages
         \cup LinePiecePages \cup ChainPages \cup ShelfPages
         \cup ThreadPages \cup StairPages \cup TwinPages

-----------------------------------------------------------------------------
(* The caller: parser = CoordinatePageParser(page, escape); parser.run() *)

Init ==
    /\ page \in Pages
    /\ tie \in {"lo", "hi"}
    /\ tokens = <<>>
    /\ blocks = <<>>
    /\ order = <<>>
    /\ out = <<>>
    /\ err = "none"
    /\ pc = "new"
    /\ returned = <<>>
    /\ NoCallers

\* __init__ up to the end of the tokenizer loop
Tokenize ==
    /\ pc = "new"
    /\ IF LayoutMismatch(page)
       THEN /\ err' = "RuntimeError"
            /\ pc' = "raised"
            /\ UNCHANGED tokens
       ELSE LET r == TokenizeLoop(page, 0, 0, <<>>)
            IN  /\ tokens' = r.tokens
                /\ err' = IF r.raised THEN "IndexError" ELSE "none"
                /\ pc' = IF r.raised THEN "raised" ELSE "tokenized"
    /\ UNCHANGED <<page, tie, blocks, order, out, returned>>
    /\ UNCHANGED callerVars

\* self.tokens.sort() and the k-d tree over the sorted centres
SortAndIndex ==
    /\ pc = "tokenized"
    /\ tokens' = SortTokens(tokens)
    /\ pc' = "constructed"
    /\ UNCHANGED <<page, tie, blocks, order, out, err, returned>>
    /\ UNCHANGED callerVars

\* run(): self.blocks = [] and block formation
Form ==
    /\ pc = "constructed"
    /\ blocks' = FormBlocks
    /\ pc' = "formed"
    /\ UNCHANGED <<page, tie, tokens, order, out, err, returned>>
    /\ UNCHANGED callerVars

\* First pass, merge overlapping blocks
PassOverlap ==
    /\ pc = "formed"
    /\ blocks' = OverlapMerge(blocks)
    /\ pc' = "overlap"
    /\ UNCHANGED <<page, tie, tokens, order, out, err, returned>>
    /\ UNCHANGED callerVars

\* merge small pieces that are on the same line
PassSmallLine ==
    /\ pc = "overlap"
    /\ blocks' = SmallLineMerge(blocks)
    /\ pc' = "small_line"
    /\ UNCHANGED <<page, tie, tokens, order, out, err, returned>>
    /\ UNCHANGED callerVars

\* paragraph merging
PassParagraph ==
    /\ pc = "small_line"
    /\ blocks' = ParagraphMerge(blocks)
    /\ pc' = "paragraph"
    /\ UNCHANGED <<page, tie, tokens, order, out, err, returned>>
    /\ UNCHANGED callerVars

\* Merge column blocks forward
PassColumnForward ==
    /\ pc = "paragraph"
    /\ blocks' = ColumnForwardMerge(blocks)
    /\ pc' = "column_forward"
    /\ UNCHANGED <<page, tie, tokens, order, out, err, returned>>
    /\ UNCHANGED callerVars

\* Merge big same-width columns
PassBigColumn ==
    /\ pc = "column_forward"
    /\ blocks' = BigColumnMerge(blocks)
    /\ pc' = "big_column"
    /\ UNCHANGED <<page, tie, tokens, order, out, err, returned>>
    /\ UNCHANGED callerVars

\* try horizontal merging
PassHorizontal ==
    /\ pc = "big_column"
    /\ blocks' = HorizontalMerge(blocks)
    /\ pc' = "horizontal"
    /\ UNCHANGED <<page, tie, tokens, order, out, err, returned>>
    /\ UNCHANGED callerVars

\* blocks = self.sort_blocks(); min() of an empty list raises ValueError
Sort ==
    /\ pc = "horizontal"
    /\ IF Len(blocks) = 0
       THEN /\ err' = "ValueError"
            /\ pc' = "raised"
            /\ returned' = Append(returned, [out |-> out, err |-> "ValueError"])
            /\ UNCHANGED order
       ELSE /\ order' = SortBlocks(blocks)
            /\ pc' = "sorted"
            /\ UNCHANGED <<err, returned>>
    /\ UNCHANGED <<page, tie, tokens, blocks, out>>
    /\ UNCHANGED callerVars

\* the emission loop and return buffer.getvalue()
Emit ==
    /\ pc = "sorted"
    /\ LET r == EmitBlocks(blocks, order, 1, <<>>)
       IN  IF r.raised
           THEN /\ err' = "ZeroDivisionError"
                /\ pc' = "raised"
                /\ returned' = Append(returned, [out |-> out, err |-> "ZeroDivisionError"])
                /\ UNCHANGED out
           ELSE /\ out' = r.buffer
                /\ pc' = "done"
                /\ returned' = Append(returned, [out |-> r.buffer, err |-> "none"])
                /\ UNCHANGED err
    /\ UNCHANGED <<page, tie, tokens, blocks, order>>
    /\ UNCHANGED callerVars

\* the caller calls run() once more on the same parser; self.tokens, self.tree
\* and self.blocks are what the previous call left behind
RunAgain ==
    /\ pc \in {"done", "raised"}
    /\ err \in {"none", "ValueError", "ZeroDivisionError"}
    /\ 0 < Len(returned)
    /\ Len(returned) < MaxRuns
    /\ pc' = "constructed"
    /\ err' = "none"
    /\ out' = <<>>
    /\ order' = <<>>
    /\ UNCHANGED <<page, tie, tokens, blocks, returned>>
    /\ UNCHANGED callerVars

Next ==
    \/ Tokenize
    \/ SortAndIndex
    \/ Form
    \/ PassOverlap
    \/ PassSmallLine
    \/ PassParagraph
    \/ PassColumnForward
    \/ PassBigColumn
    \/ PassHorizontal
    \/ Sort
    \/ Emit
    \/ RunAgain

Spec == Init /\ [][Next]_vars

-----------------------------------------------------------------------------
(* Properties *)

\* the stage boundaries of run(): after formation and after each merge pass
StagePcs ==
    {"formed", "overlap", "small_line", "paragraph", "column_forward",
     "big_column", "horizontal"}

BlocksHolding(n) == {k \in DOMAIN blocks : SeqContains(blocks[k].tokens, n)}

\* C1: after block formation and after each of the six merge passes every
\* token index is a member of exactly one block, and no block is empty.
C1_Partition ==
    pc \in StagePcs =>
        /\ \A n \in DOMAIN tokens : Cardinality(BlocksHolding(n)) = 1
        /\ \A k \in DOMAIN blocks :
               /\ Len(blocks[k].tokens) > 0
               /\ Range(blocks[k].tokens) \subseteq DOMAIN tokens

\* three tokens that formation put in three blocks, merged into one by the passes
C1_Witness ==
    /\ pc = "horizontal"
    /\ Len(tokens) = 3
    /\ Len(FormBlocks) = 3
    /\ Len(blocks) = 1

\* C2: after the overlap-merge pass no two blocks of self.blocks overlap
\* according to _TokenBlock.overlaps.
C2_NoOverlapAfterOverlapPass ==
    pc = "overlap" =>
        \A i, j \in DOMAIN blocks : i # j => ~Overlaps(blocks[i], blocks[j])

\* no visible character has a rectangle, and text and layout match
EmptyPage(p) ==
    /\ ~LayoutMismatch(p)
    /\ \A n \in DOMAIN p.layout : IsSpace(p.text[n])

\* C3: for a page with zero non-whitespace tokens the constructor and run()
\* complete without raising and return the empty string.
C3_EmptyPageReturnsEmpty ==
    (EmptyPage(page) /\ pc \in {"raised", "done"}) =>
        (pc = "done" /\ err = "none" /\ out = <<>>)

\* C4: running the six merge passes a second time on the block set that a
\* first full run produced performs no further merge.
C4_SecondRunMergesNothing ==
    pc = "horizontal" => MergePasses(blocks) = blocks

\* the indices (as in the source) of the characters that become tokens, ascending
VisibleIndices(p) ==
    SelectSeq([n \in DOMAIN p.layout |-> n - 1], LAMBDA index : ~IsSpace(p.text[index + 1]))

\* the font size of the attribute run whose index range covers the index
CoveringFontSize(attrs, index) ==
    LET r == CHOOSE r \in DOMAIN attrs :
                 /\ attrs[r].end_index >= index
                 /\ \A q \in 1..(r - 1) : attrs[q].end_index < index
    IN  attrs[r].font_size

\* C5: every token produced by the tokenizer carries the font size of the
\* attribute run whose index range covers that character's index.
C5_FontSizeOfCoveringRun ==
    pc = "tokenized" =>
        \A k \in DOMAIN tokens :
            tokens[k].font_size = CoveringFontSize(page.attrs, VisibleIndices(page)[k])

C7_TextShorterRaises ==
    (Len(page.text) < Len(page.layout) /\ pc # "new") =>
        /\ pc = "raised"
        /\ err = "RuntimeError"
        /\ tokens = <<>>
        /\ blocks = <<>>
        /\ out = <<>>
        /\ ~ENABLED Next

\* the constructor raised on a text with a visible character and one
\* rectangle too many
C7_Witness ==
    /\ pc = "raised"
    /\ err = "RuntimeError"
    /\ Len(page.text) < Len(page.layout)
    /\ \E n \in DOMAIN page.text : ~IsSpace(page.text[n])

\* "x[2]" followed by the block separator
ScenarioEText == <<"x", "[", "2", "]", "\n", "\n", "\n">>

\* C8: 'x' at font size 10 and immediately to its right '2' at font size 6
\* whose centre lies 3 units above, parsed with escaping enabled, is emitted
\* as 'x[2]' followed only by the block separator.
C8_ScenarioE ==
    (page = ScriptPage(1, -3, TRUE) /\ pc \in {"raised", "done"}) =>
        (pc = "done" /\ out = ScenarioEText)

\* the smallest box around the tokens of a block
RECURSIVE BoundingBox(_, _)
BoundingBox(toks, n) ==
    IF n = Len(toks) THEN Rect(tokens[toks[n]].x1, tokens[toks[n]].y1,
                               tokens[toks[n]].x2, tokens[toks[n]].y2)
    ELSE Combine(tokens[toks[n]], BoundingBox(toks, n + 1))

\* C9: at every stage boundary each block's rectangle equals the tight
\* bounding box of its member tokens.
C9_TightBoundingBox ==
    pc \in StagePcs =>
        \A k \in DOMAIN blocks :
            Rect(blocks[k].x1, blocks[k].y1, blocks[k].x2, blocks[k].y2)
                = BoundingBox(blocks[k].tokens, 1)

\* a block grown by add() during formation and by merge() in a pass, wider
\* and taller than each of its tokens
C9_Witness ==
    /\ pc \in StagePcs \ {"formed"}
    /\ Len(FormBlocks) = 2
    /\ Len(blocks) = 1
    /\ Len(blocks[1].tokens) = 3
    /\ \A n \in DOMAIN tokens :
           /\ tokens[n].x2 - tokens[n].x1 < Width(blocks[1])
           /\ tokens[n].y2 - tokens[n].y1 < Height(blocks[1])

\* C10: sort_blocks returns a permutation of self.blocks: every block left
\* after the merge passes appears exactly once in the emitted order.
C10_OrderIsPermutation ==
    pc = "sorted" =>
        /\ Len(order) = Len(blocks)
        /\ \A k \in DOMAIN blocks : Cardinality({n \in DOMAIN order : order[n] = k}) = 1

\* three blocks, one of them left in the center region and threaded between
\* column blocks, emitted in another order than that of self.blocks
C10_Witness ==
    /\ pc = "sorted"
    /\ Len(blocks) = 3
    /\ Len(Reclassified(blocks).center) > 0
    /\ Len(RegionList(blocks, "left")) + Len(RegionList(blocks, "right")) > 0
    /\ order # <<1, 2, 3>>

\* the number of runs open after the first n characters of s
RECURSIVE BracketDepth(_, _)
BracketDepth(s, n) ==
    IF n = 0 THEN 0
    ELSE BracketDepth(s, n - 1)
         + (IF s[n] = "[" THEN 1 ELSE IF s[n] = "]" THEN -1 ELSE 0)

\* C11: in the emitted text the inserted markers are balanced and never
\* nested: every prefix has as many '[' as ']' or one more, and at the end of
\* each line (a line feed or the end of the text) the totals are equal.
C11_BracketsBalanced ==
    pc = "done" =>
        \A n \in 0..Len(out) :
            /\ BracketDepth(out, n) \in {0, 1}
            /\ (n = Len(out) \/ out[n + 1] = "\n") => BracketDepth(out, n) = 0

\* a run opened in mid-line and closed by exit_special_script before the next token
C11_Witness ==
    /\ pc = "done"
    /\ \E n \in 1..(Len(out) - 1) : out[n] = "]" /\ out[n + 1] \notin {"\n", "]"}

\* a run still open after the last token of the line, closed at the line's end
C11_WitnessForcedClose ==
    /\ pc = "done"
    /\ \E n \in 1..(Len(out) - 1) : out[n] = "]" /\ out[n + 1] = "\n"

\* C12: every call of run() on a parser returns what the first call returned
\* (the same string, or the same exception): run() rebuilds the block list
\* from scratch and leaves the token list as it was.
C12_RepeatedRunSameOutput ==
    \A i, j \in DOMAIN returned : returned[i] = returned[j]

\* a second call has returned; the first call had merged blocks, so the
\* second started with a block list different from the one formation builds
C12_Witness ==
    /\ Len(returned) = 2
    /\ pc = "done"
    /\ Len(blocks) < Len(FormBlocks)
    /\ Len(blocks) > 1
    /\ order # <<1, 2>>

\* C13: for every page with at least one token, whatever the geometry and
\* the font sizes, the constructor and run() complete and return a string: no
\* exception leaves the engine once a token has been built.
C13_NeverRaisesWithTokens ==
    Len(tokens) > 0 => (pc # "raised" /\ err = "none")

\* 1 for the blocks sort_blocks puts in header (also by reclassification),
\* 2 for left, 3 for right, 4 for footer, 0 for blocks that stay in center
RegionRank(k) ==
    LET r == Reclassified(blocks)
    IN  IF SeqContains(r.header, k) THEN 1
        ELSE IF SeqContains(r.new_footer, k) \/ Region(blocks, k) = "footer" THEN 4
        ELSE IF Region(blocks, k) = "left" THEN 2
        ELSE IF Region(blocks, k) = "right" THEN 3
        ELSE 0

\* C14: when no block is left in the center region, the emitted order is all
\* header blocks, then all left-column blocks, then all right-column blocks,
\* then all footer blocks.
C14_HeaderLeftRightFooter ==
    (pc = "sorted" /\ \A k \in DOMAIN blocks : RegionRank(k) # 0) =>
        \A i, j \in DOMAIN order : i < j => RegionRank(order[i]) <= RegionRank(order[j])

\* a header, a left block, a right block and a footer, where self.blocks has
\* the right block before the left one
C14_Witness ==
    /\ pc = "sorted"
    /\ Len(blocks) = 4
    /\ {RegionRank(k) : k \in DOMAIN blocks} = {1, 2, 3, 4}
    /\ \E i, j \in DOMAIN blocks : i < j /\ RegionRank(i) = 3 /\ RegionRank(j) = 2
    /\ \E k \in DOMAIN blocks :
           RegionRank(k) = 1 /\ 2 * Width(blocks[k]) > PageWidth /\ ShortOrStraddling(blocks[k])

\* the characters of the tokens toks[1..n] with one space before each token
\* whose left edge is more than a tenth of its font size right of the
\* previous token's right edge
RECURSIVE Spaced(_, _)
Spaced(toks, n) ==
    IF n = 0 THEN <<>>
    ELSE LET token == tokens[toks[n]]
         IN  Spaced(toks, n - 1)
             \o (IF n > 1 /\ 10 * (token.x1 - tokens[toks[n - 1]].x2) > token.font_size
                 THEN <<" ">> ELSE <<>>)
             \o <<token.char>>

\* the text of the blocks ord[1..n], every block on one line
RECURSIVE SpacedBlocks(_, _)
SpacedBlocks(ord, n) ==
    IF n = 0 THEN <<>>
    ELSE SpacedBlocks(ord, n - 1)
         \o Spaced(blocks[ord[n]].tokens, Len(blocks[ord[n]].tokens)) \o Newlines(3)

LineFeeds(s) == Len(SelectSeq(s, LAMBDA c : c = "\n"))

\* C15: within a line exactly one space is written before a token when the gap
\* to the previous token exceeds 0.1 times the token's font size and none
\* otherwise (stated for the pages on which every block is a single line,
\* superscript markers put aside); 'P','D' at font size 10 with gap 0 are one
\* block emitted as 'PD', and 'PDF' and 'Parser' with gap 3 are one block
\* emitted as 'PDF Parser'.
C15_SpaceIffGapExceedsTenth ==
    /\ (pc = "done" /\ LineFeeds(out) = 3 * Len(blocks)) =>
           SelectSeq(out, LAMBDA c : c \notin {"[", "]"}) = SpacedBlocks(order, Len(order))
    /\ (page = TwoLetters(0, 10) /\ pc \in {"raised", "done"}) =>
           /\ pc = "done"
           /\ Len(blocks) = 1
           /\ out = <<"P", "D">> \o Newlines(3)
    /\ (page = TwoWords(3, 10) /\ pc \in {"raised", "done"}) =>
           /\ pc = "done"
           /\ Len(blocks) = 1
           /\ out = <<"P", "D", "F", " ", "P", "a", "r", "s", "e", "r">> \o Newlines(3)

\* 'PDF' and 'Parser' with gap 3 have been emitted
C15_Witness ==
    /\ page = TwoWords(3, 10)
    /\ pc = "done"
    /\ Len(blocks) = 1
    /\ Len(out) = 13

\* a gap of exactly a tenth of the font size got no space
C15_WitnessNoSpace ==
    /\ page = TwoWords(1, 10)
    /\ pc = "done"
    /\ out = <<"P", "D", "F", "P", "a", "r", "s", "e", "r">> \o Newlines(3)

\* some block outside the group intersects or touches the group's bounding box
ForeignBlockTouches(bs, indices) ==
    \E k \in DOMAIN bs :
        ~SeqContains(indices, k) /\ DistanceIsZero(bs[k], BoxOf(bs, indices, 1))

\* C16: on the block list of every stage boundary and for every pair of
\* blocks as the candidate group, check_overlap returns False exactly when
\* some block outside the group intersects or touches the union bounding box
\* of the group, whatever the index of that block in self.blocks.
C16_CheckOverlapSeesEveryBlock ==
    pc \in StagePcs =>
        \A i, j \in DOMAIN blocks :
            i < j => (CheckOverlap(blocks, <<i, j>>) <=> ~ForeignBlockTouches(blocks, <<i, j>>))

\* C17: each of the passes 2 to 6 ends at a local fixed point: running the
\* same pass again on the block list it produced performs no merge.
C17_PassesEndAtFixedPoint ==
    /\ pc = "small_line" => SmallLineMerge(blocks) = blocks
    /\ pc = "paragraph" => ParagraphMerge(blocks) = blocks
    /\ pc = "column_forward" => ColumnForwardMerge(blocks) = blocks
    /\ pc = "big_column" => BigColumnMerge(blocks) = blocks
    /\ pc = "horizontal" => HorizontalMerge(blocks) = blocks

\* the directional gaps of the two blocks are negative in both axes
GapsNegative(b, other) == RectDx(b, other) < 0 /\ RectDy(b, other) < 0

\* C18: the overlap-merge pass unions two blocks only when their directional
\* gaps are negative in both axes: when no two blocks of the list have both
\* gaps negative (they are apart, or only touch along an edge), the pass
\* leaves the list as it is.
C18_TouchingBlocksNotMerged ==
    [][(pc = "formed" /\ \A i, j \in DOMAIN blocks :
                            i # j => ~GapsNegative(blocks[i], blocks[j]))
           => blocks' = blocks]_vars

\* the blocks of the list bs whose tokens all went into the block nb
PartsOf(bs, nb) == {k \in DOMAIN bs : Range(bs[k].tokens) \subseteq Range(nb.tokens)}

\* C19: the small-line pass merges two fragments only when their vertical
\* centers differ by less than 1 unit: any two blocks that the pass has put
\* into one block had centers less than 1 unit apart (y1 + y2 is twice the
\* center).
C19_SmallLineWithinOneUnit ==
    [][pc = "overlap" =>
          \A n \in DOMAIN blocks' : \A i, j \in PartsOf(blocks, blocks'[n]) :
              Abs((blocks[i].y1 + blocks[i].y2) - (blocks[j].y1 + blocks[j].y2)) < 2]_vars

\* the blocks of the list that the step merged into one block with others
MergedParts(n) ==
    IF Cardinality(PartsOf(blocks, blocks'[n])) > 1 THEN PartsOf(blocks, blocks'[n]) ELSE {}

\* C20: all fragments that the small-line pass absorbs in one committed
\* merge, chained ones included, have the same nearest block below (stated
\* for the runs of the pass that commit one merge, on the list the pass
\* started with).
C20_ChainSharesBlockBelow ==
    [][(/\ pc = "overlap"
        /\ Cardinality({n \in DOMAIN blocks' : MergedParts(n) # {}}) = 1
        /\ \A n \in DOMAIN blocks' :
               MergedParts(n) # {} => Len(blocks') = Len(blocks) - Cardinality(MergedParts(n)) + 1)
          => \A n \in DOMAIN blocks' : \A i, j \in MergedParts(n) :
                 FindBelow(blocks, blocks[i]) = FindBelow(blocks, blocks[j])]_vars

\* the emitted text without the inserted spaces, line feeds and markers
GlyphsOf(s) == SelectSeq(s, LAMBDA c : c \notin {" ", "\n", "[", "]"})

\* the text holds every token's character exactly once
GlyphsPreserved ==
    /\ Len(GlyphsOf(out)) = Len(tokens)
    /\ \A n \in DOMAIN tokens :
           Cardinality({m \in DOMAIN GlyphsOf(out) : GlyphsOf(out)[m] = tokens[n].char})
               = Cardinality({m \in DOMAIN tokens : tokens[m].char = tokens[n].char})

\* C21: for every page with at least one token run() returns a text that,
\* with the inserted spaces, line feeds and markers removed, contains each
\* token's character exactly once.
C21_NoGlyphLostOrDuplicated ==
    (Len(tokens) > 0 /\ pc \in {"raised", "done"}) => (pc = "done" /\ GlyphsPreserved)

\* whenever run() returns, the text it returns holds every token's character
\* exactly once
C21_ReturnedTextKeepsGlyphs == pc = "done" => GlyphsPreserved

\* C22: in the final order the blocks of the left region appear top to bottom
\* relative to each other (non-decreasing y1), and so do the blocks of the
\* right region.
C22_ColumnsTopToBottom ==
    pc = "sorted" =>
        \A i, j \in DOMAIN order :
            (/\ i < j
             /\ Region(blocks, order[i]) \in {"left", "right"}
             /\ Region(blocks, order[i]) = Region(blocks, order[j]))
                => blocks[order[i]].y1 <= blocks[order[j]].y1

\* the first block of a column list is the column's topmost block and the
\* last one its bottommost
ColumnEndsAreExtremes(region) ==
    LET list == RegionList(blocks, region)
    IN  \A n \in DOMAIN list :
            /\ blocks[list[1]].y1 <= blocks[list[n]].y1
            /\ blocks[list[n]].y2 <= blocks[list[Len(list)]].y2

\* the column lists that the reclassification reads start with the topmost
\* and end with the bottommost block of their column
C22_ColumnListsStartAtTop ==
    pc = "sorted" => (ColumnEndsAreExtremes("left") /\ ColumnEndsAreExtremes("right"))

\* the position of block k in the returned order
PositionOf(k) == CHOOSE n \in DOMAIN order : order[n] = k

\* a block that stays in the center region and a column block ending at or
\* above its top
ColumnBlockAbove(b, c) ==
    /\ \E n \in DOMAIN Reclassified(blocks).center : Reclassified(blocks).center[n] = c
    /\ Region(blocks, b) \in {"left", "right"}
    /\ EndsAbove(blocks, b, c)

\* C23: for every block c that remains in the center region after the
\* reclassification and every left-region or right-region block b with
\* b.y2 <= c.y1 + 1, b appears before c in the order sort_blocks returns.
C23_ColumnBlocksAbovePrecede ==
    pc = "sorted" =>
        \A b, c \in DOMAIN blocks : ColumnBlockAbove(b, c) => PositionOf(b) < PositionOf(c)

\* a left block ends above the second of two remaining center blocks but not
\* above the first, and the order is returned
C23_Witness ==
    /\ pc = "sorted"
    /\ Len(Reclassified(blocks).center) >= 2
    /\ \E b \in DOMAIN blocks :
           /\ ColumnBlockAbove(b, Reclassified(blocks).center[2])
           /\ ~EndsAbove(blocks, b, Reclassified(blocks).center[1])

\* the comparator is irreflexive, asymmetric and transitive on the tokens s
StrictOrderOn(s) ==
    \A a, b, c \in DOMAIN s :
        /\ ~TokenLt(s[a], s[a])
        /\ TokenLt(s[a], s[b]) => ~TokenLt(s[b], s[a])
        /\ (TokenLt(s[a], s[b]) /\ TokenLt(s[b], s[c])) => TokenLt(s[a], s[c])

\* C24: the token comparator used by self.tokens.sort() is irreflexive,
\* asymmetric and transitive on the tokens of every page.
C24_ComparatorStrictOrder == pc = "constructed" => StrictOrderOn(tokens)

\* after self.tokens.sort() no token is less than a token sorted before it
C24_SortedWithoutInversion ==
    pc = "constructed" =>
        \A m, n \in DOMAIN tokens : m < n => ~TokenLt(tokens[n], tokens[m])

\* next_neighbors of run() for the token at `current`
FirstNextNeighbors(current) ==
    LET token == tokens[current]
    IN  SelectSeq(Query(token, 1, 3 * token.font_size), LAMBDA n :
            /\ n # current
            /\ Cx2(tokens[n]) > Cx2(token)
            /\ 5 * TokDy2(tokens[n], token) < 7 * token.font_size)

\* the frontier tokens process_neighbor takes one after the other, at most
\* `more` of them
RECURSIVE FrontierWalk(_, _, _, _)
FrontierWalk(start_token, token, neighbors, more) ==
    IF Len(neighbors) = 0 \/ more = 0 THEN <<>>
    ELSE LET token_i == NextFrontier(token, neighbors, 1)
         IN  IF token_i = 0 THEN <<>>
             ELSE LET t == tokens[token_i]
                      nn == Query(t, 2, 16 * t.font_size * t.font_size)
                      next_neighbors ==
                          SelectSeq(nn, LAMBDA n :
                              /\ n # token_i
                              /\ Cx2(tokens[n]) > 2 * t.x1
                              /\ 5 * TokDy2(tokens[n], t) < 7 * t.font_size
                              /\ TokDy2(tokens[n], start_token) < 2 * start_token.font_size)
                  IN  <<token_i>> \o FrontierWalk(start_token, t, next_neighbors, more - 1)

\* the start token followed by the frontiers of the walk started at it
WalkFrom(current) ==
    <<current>> \o FrontierWalk(tokens[current], tokens[current],
                                FirstNextNeighbors(current), Len(tokens) + 1)

\* C25: the walk of process_neighbor ends for every token set: each frontier's
\* center x is strictly greater than the one before it, so no token is the
\* frontier twice and the walk has fewer advances than there are tokens.
C25_FrontierStrictlyRight ==
    pc = "constructed" =>
        \A current \in DOMAIN tokens :
            /\ Len(WalkFrom(current)) <= Len(tokens)
            /\ \A n \in 1..(Len(WalkFrom(current)) - 1) :
                   Cx2(tokens[WalkFrom(current)[n]]) < Cx2(tokens[WalkFrom(current)[n + 1]])

\* a walk advanced to a frontier that has another token on the same center
C25_Witness ==
    /\ pc = "formed"
    /\ \E current, n \in DOMAIN tokens :
           /\ Len(WalkFrom(current)) >= 2
           /\ n # WalkFrom(current)[2]
           /\ Cx2(tokens[n]) = Cx2(tokens[WalkFrom(current)[2]])
           /\ Cy2(tokens[n]) = Cy2(tokens[WalkFrom(current)[2]])

\* a walk advanced twice
C25_WitnessTwoAdvances ==
    pc = "formed" /\ \E current \in DOMAIN tokens : Len(WalkFrom(current)) >= 3

-----------------------------------------------------------------------------
(* The loops of the six merge passes, iteration by iteration.  A run record *)
(* holds self.blocks, the number of loop iterations so far (steps) and the  *)
(* number of iterations that kept their index although self.blocks did not  *)
(* get shorter (stalls).  A loop is followed for at most `limit` steps.     *)

NewRun(bs) == [blocks |-> bs, steps |-> 0, stalls |-> 0]

\* one iteration that leaves bs1 and either keeps its index (same) or advances
Tick(r, bs1, same) ==
    [blocks |-> bs1,
     steps  |-> r.steps + 1,
     stalls |-> r.stalls + IF same /\ Len(bs1) >= Len(r.blocks) THEN 1 ELSE 0]

RECURSIVE OverlapInnerRun(_, _, _, _)
OverlapInnerRun(r, i, j, limit) ==
    IF j > Len(r.blocks) \/ r.steps > limit THEN r
    ELSE IF Overlaps(r.blocks[i], r.blocks[j])
         THEN OverlapInnerRun(Tick(r, MergeInto(r.blocks, i, j), TRUE), i, j, limit)
         ELSE OverlapInnerRun(Tick(r, r.blocks, FALSE), i, j + 1, limit)

RECURSIVE OverlapOuterRun(_, _, _)
OverlapOuterRun(r, i, limit) ==
    IF i > Len(r.blocks) \/ r.steps > limit THEN r
    ELSE OverlapOuterRun(OverlapInnerRun(Tick(r, r.blocks, FALSE), i, i + 1, limit),
                         i + 1, limit)

RECURSIVE SmallLineInnerRun(_, _, _, _, _)
SmallLineInnerRun(r, i, j, b1_fs, limit) ==
    IF j > Len(r.blocks) \/ r.steps > limit THEN r
    ELSE LET bs == r.blocks
             b1 == bs[i]
             b2 == bs[j]
             b2_fs == BlockFs(b2)
             next == SmallLineInnerRun(Tick(r, bs, FALSE), i, j + 1, b1_fs, limit)
         IN  IF Height(b2) > 2 * b2_fs THEN next
             ELSE IF CenterDy4(b1, b2) < 4 /\ CheckOverlap(bs, <<i, j>>)
                  THEN IF FindBelow(bs, b1) # FindBelow(bs, b2) THEN next
                       ELSE LET k == FindBelow(bs, Combine(b1, b2))
                            IN  IF k # 0 /\ RectDy(bs[k], b1) < 2 * b1_fs
                                THEN LET c == SmallLineChain(bs, <<i, j>>, k, b2, b2_fs,
                                                             j + 1, FALSE)
                                     IN  IF c.is_overlap
                                         THEN SmallLineInnerRun(
                                                  Tick(r, CommitChain(bs, c.bi, Len(c.bi)), TRUE),
                                                  i, j, b1_fs, limit)
                                         ELSE next
                                ELSE next
                  ELSE next

RECURSIVE SmallLineOuterRun(_, _, _)
SmallLineOuterRun(r, i, limit) ==
    IF i > Len(r.blocks) \/ r.steps > limit THEN r
    ELSE IF Height(r.blocks[i]) > 2 * BlockFs(r.blocks[i])
         THEN SmallLineOuterRun(Tick(r, r.blocks, FALSE), i + 1, limit)
         ELSE SmallLineOuterRun(
                  SmallLineInnerRun(Tick(r, r.blocks, FALSE), i, i + 1,
                                    BlockFs(r.blocks[i]), limit),
                  i + 1, limit)

RECURSIVE ParagraphInnerRun(_, _, _, _)
ParagraphInnerRun(r, i, j, limit) ==
    IF j > Len(r.blocks) \/ r.steps > limit THEN r
    ELSE IF /\ DistX(r.blocks[i], r.blocks[j]) = 0
            /\ DistY(r.blocks[i], r.blocks[j]) < BlockFs(r.blocks[j])
            /\ CheckOverlap(r.blocks, <<i, j>>)
         THEN ParagraphInnerRun(Tick(r, MergeInto(r.blocks, i, j), TRUE), i, j, limit)
         ELSE ParagraphInnerRun(Tick(r, r.blocks, FALSE), i, j + 1, limit)

RECURSIVE ParagraphOuterRun(_, _, _)
ParagraphOuterRun(r, i, limit) ==
    IF i > Len(r.blocks) \/ r.steps > limit THEN r
    ELSE ParagraphOuterRun(ParagraphInnerRun(Tick(r, r.blocks, FALSE), i, i + 1, limit),
                           i + 1, limit)

RECURSIVE ColumnLoopRun(_, _, _)
ColumnLoopRun(r, i, limit) ==
    IF i > Len(r.blocks) \/ r.steps > limit THEN r
    ELSE LET bs == r.blocks
             j == FindBelow(bs, bs[i])
         IN  IF /\ j # 0
                /\ ColumnCondition(bs[i], bs[j], BlockFs(bs[j]))
                /\ CheckOverlap(bs, <<i, j>>)
             THEN ColumnLoopRun(Tick(r, MergeInto(bs, i, j), TRUE), i, limit)
             ELSE ColumnLoopRun(Tick(r, bs, FALSE), i + 1, limit)

RECURSIVE BigColumnLoopRun(_, _, _)
BigColumnLoopRun(r, i, limit) ==
    IF i > Len(r.blocks) \/ r.steps > limit THEN r
    ELSE LET bs == r.blocks
             next == BigColumnLoopRun(Tick(r, bs, FALSE), i + 1, limit)
         IN  IF Height(bs[i]) < 2 * BlockFs(bs[i]) THEN next
             ELSE LET j == FindBelow(bs, bs[i])
                  IN  IF j = 0 THEN next
                      ELSE LET b1 == bs[i]
                               b2 == bs[j]
                               font_size == BlockFs(b2)
                           IN  IF Height(b2) < 2 * font_size THEN next
                               ELSE IF /\ Abs(b1.x1 - b2.x1) < font_size
                                       /\ 10 * Abs(b1.x2 - b2.x2) < 7 * font_size
                                       /\ CheckOverlap(bs, <<i, j>>)
                                    THEN BigColumnLoopRun(Tick(r, MergeInto(bs, i, j), TRUE),
                                                          i, limit)
                                    ELSE next

RECURSIVE HorizontalCandidatesRun(_, _, _, _, _)
HorizontalCandidatesRun(r, i, j, k, limit) ==
    IF k > Len(r.blocks) \/ r.steps > limit THEN r
    ELSE IF /\ DistY(r.blocks[j], r.blocks[k]) = 0
            /\ DistX(r.blocks[i], r.blocks[k]) = 0
            /\ CheckOverlap(r.blocks, <<j, k>>)
         THEN HorizontalCandidatesRun(Tick(r, MergeInto(r.blocks, j, k), TRUE), i, j, k, limit)
         ELSE HorizontalCandidatesRun(Tick(r, r.blocks, FALSE), i, j, k + 1, limit)

\* returns the run and `merged`
RECURSIVE HorizontalInnerRun(_, _, _, _, _)
HorizontalInnerRun(r, i, j, merged, limit) ==
    IF j > Len(r.blocks) \/ r.steps > limit THEN [run |-> r, merged |-> merged]
    ELSE IF HorizontalCondition(r.blocks[i], r.blocks[j], BlockFs(r.blocks[j]))
         THEN LET r1 == HorizontalCandidatesRun(r, i, j, j + 1, limit)
              IN  IF CheckOverlap(r1.blocks, <<i, j>>)
                  THEN HorizontalInnerRun(Tick(r1, MergeInto(r1.blocks, i, j), TRUE),
                                          i, j, TRUE, limit)
                  ELSE HorizontalInnerRun(Tick(r1, r1.blocks, FALSE), i, j + 1, merged, limit)
         ELSE HorizontalInnerRun(Tick(r, r.blocks, FALSE), i, j + 1, merged, limit)

RECURSIVE HorizontalOuterRun(_, _, _)
HorizontalOuterRun(r, i, limit) ==
    IF i > Len(r.blocks) \/ r.steps > limit THEN r
    ELSE LET h == HorizontalInnerRun(r, i, i + 1, FALSE, limit)
             stall == h.merged /\ Len(h.run.blocks) >= Len(r.blocks)
         IN  HorizontalOuterRun([blocks |-> h.run.blocks,
                                 steps  |-> h.run.steps + 1,
                                 stalls |-> h.run.stalls + IF stall THEN 1 ELSE 0],
                                IF h.merged THEN i ELSE i + 1, limit)

\* the iterations a pass may take on n blocks: every iteration of a loop
\* nested three deep either advances an index or shortens self.blocks
Limit(n) == (n + 1) * (n + 1) * (n + 1)

\* the pass that run() executes next, followed through its loops
PassRun ==
    LET r == NewRun(blocks)
        limit == Limit(Len(blocks))
    IN  CASE pc = "formed"         -> OverlapOuterRun(r, 1, limit)
          [] pc = "overlap"        -> SmallLineOuterRun(r, 1, limit)
          [] pc = "small_line"     -> ParagraphOuterRun(r, 1, limit)
          [] pc = "paragraph"      -> ColumnLoopRun(r, 1, limit)
          [] pc = "column_forward" -> BigColumnLoopRun(r, 1, limit)
          [] pc = "big_column"     -> HorizontalOuterRun(r, 1, limit)

BeforePass == {"formed", "overlap", "small_line", "paragraph", "column_forward", "big_column"}

\* C26: in each of the six merge passes a loop keeps its index only after a
\* merge that removed a block from self.blocks, and the pass ends within a
\* number of iterations bounded by the number of blocks.
C26_PassesKeepIndexOnlyAfterRemoval ==
    pc \in BeforePass => (PassRun.stalls = 0 /\ PassRun.steps <= Limit(Len(blocks)))

\* the horizontal pass is about to merge blocks and examine an index again
C26_Witness ==
    pc = "big_column" /\ Len(PassRun.blocks) < Len(blocks) /\ PassRun.stalls = 0

\* followed through its loops, a pass leaves the blocks that the pass leaves
PassRunAgrees ==
    /\ pc = "formed"         => PassRun.blocks = OverlapMerge(blocks)
    /\ pc = "overlap"        => PassRun.blocks = SmallLineMerge(blocks)
    /\ pc = "small_line"     => PassRun.blocks = ParagraphMerge(blocks)
    /\ pc = "paragraph"      => PassRun.blocks = ColumnForwardMerge(blocks)
    /\ pc = "column_forward" => PassRun.blocks = BigColumnMerge(blocks)
    /\ pc = "big_column"     => PassRun.blocks = HorizontalMerge(blocks)

-----------------------------------------------------------------------------
(* saadt.util.cache.LRUCache: an OrderedDict, here a sequence of            *)
(* [key, value] records with the oldest entry first.                       *)

\* LRUCache.maxsize.  RequestPhase takes the default of 128; the cache is
\* scaled down here, the eviction policy is the one of the source.
maxsize == 2

HasKey(cache, key) == \E n \in DOMAIN cache : cache[n].key = key

IndexOfKey(cache, key) == CHOOSE n \in DOMAIN cache : cache[n].key = key

\* OrderedDict.move_to_end(key)
MoveToEnd(cache, key) ==
    LET n == IndexOfKey(cache, key)
    IN  SubSeq(cache, 1, n - 1) \o SubSeq(cache, n + 1, Len(cache)) \o <<cache[n]>>

\* OrderedDict.__setitem__: an existing key keeps its place, a new one goes last
DictSet(cache, key, value) ==
    IF HasKey(cache, key)
    THEN [cache EXCEPT ![IndexOfKey(cache, key)].value = value]
    ELSE Append(cache, [key |-> key, value |-> value])

\* LRUCache.__setitem__
SetItem(cache, key, value) ==
    LET moved == IF HasKey(cache, key) THEN MoveToEnd(cache, key) ELSE cache
        size  == IF HasKey(cache, key) THEN Len(cache) ELSE Len(cache) + 1
        kept  == IF size > maxsize THEN Tail(moved) ELSE moved
    IN  DictSet(kept, key, value)

\* LRUCache.__getitem__: the value, and the cache with the key moved to the end
GetItem(cache, key) ==
    [value |-> cache[IndexOfKey(cache, key)].value, cache |-> MoveToEnd(cache, key)]

\* OrderedDict.setdefault(key, default) of a subclass: through __getitem__ for
\* a key that is there, through __setitem__ for one that is not
SetDefault(cache, key, default) ==
    IF HasKey(cache, key) THEN GetItem(cache, key)
    ELSE [value |-> default, cache |-> SetItem(cache, key, default)]

-----------------------------------------------------------------------------
(* RequestPhase.prepare and RequestPhase._request, run for every link by   *)
(* the thread pool of Ranker.rank_links.                                   *)

\* ThreadPoolExecutor(max_workers=5)
max_workers == 5

\* links of one call of rank_links
MaxLinks == maxsize + 2

\* url.host is None
NoHost == 0

Hosts == 1..(maxsize + 1)

\* the shuffled list `prepared`, as the hosts of its links
LinkLists == UNION {[1..n -> Hosts \cup {NoHost}] : n \in 1..MaxLinks}

\* futures that a worker thread is running
Running == {i \in DOMAIN request : request[i].at \in {"get_lock", "acquire", "locked"}}

\* rank_links: one future per link is submitted to the executor
InitLocks ==
    /\ links \in LinkLists
    /\ domain_locks = <<>>
    /\ lock_owner = <<>>
    /\ request = [i \in DOMAIN links |-> [at |-> "pending", lock |-> 0, r |-> "unset"]]
    /\ NoParser
    /\ NoPool
    /\ NoRanker

\* a free worker thread takes the oldest pending future: _rank_link calls
\* phase.prepare, which raises ValueError for a link without a host
StartRequest(i) ==
    /\ request[i].at = "pending"
    /\ \A j \in 1..(i - 1) : request[j].at # "pending"
    /\ Cardinality(Running) < max_workers
    /\ request' = [request EXCEPT ![i].at = IF links[i] = NoHost THEN "raised" ELSE "get_lock"]
    /\ UNCHANGED <<links, domain_locks, lock_owner>>
    /\ UNCHANGED <<parserVars, poolVars, rankVars>>

\* _get_lock: with self._lock: self._domain_locks.setdefault(url.host, threading.Lock())
GetLock(i) ==
    /\ request[i].at = "get_lock"
    /\ LET made == Len(lock_owner) + 1
           got  == SetDefault(domain_locks, links[i], made)
       IN  /\ lock_owner' = Append(lock_owner, 0)
           /\ domain_locks' = got.cache
           /\ request' = [request EXCEPT ![i].at = "acquire", ![i].lock = got.value]
    /\ UNCHANGED links
    /\ UNCHANGED <<parserVars, poolVars, rankVars>>

\* with lock: the thread waits until the lock is free and takes it
Acquire(i) ==
    /\ request[i].at = "acquire"
    /\ lock_owner[request[i].lock] = 0
    /\ lock_owner' = [lock_owner EXCEPT ![request[i].lock] = i]
    /\ request' = [request EXCEPT ![i].at = "locked"]
    /\ UNCHANGED <<links, domain_locks>>
    /\ UNCHANGED <<parserVars, poolVars, rankVars>>

\* the request ends with a response or, after a RequestException, with None;
\* leaving the with block releases the lock
Release(i) ==
    /\ request[i].at = "locked"
    /\ \E r \in {"Response", "None"} :
           request' = [request EXCEPT ![i].at = "done", ![i].r = r]
    /\ lock_owner' = [lock_owner EXCEPT ![request[i].lock] = 0]
    /\ UNCHANGED <<links, domain_locks>>
    /\ UNCHANGED <<parserVars, poolVars, rankVars>>

NextLocks ==
    \/ \E i \in DOMAIN request : StartRequest(i)
    \/ \E i \in DOMAIN request : GetLock(i)
    \/ \E i \in DOMAIN request : Acquire(i)
    \/ \E i \in DOMAIN request : Release(i)

SpecLocks == InitLocks /\ [][NextLocks]_vars

\* futures inside the locked section of _request
Locked == {i \in DOMAIN request : request[i].at = "locked"}

\* C27: at any time at most one thread is inside the locked section of
\* _request for a given host.
C27_OneRequestPerHost ==
    \A i, j \in Locked : links[i] = links[j] => i = j

\* at any time at most one thread holds a given lock object
C27_OneRequestPerLock ==
    \A i, j \in Locked : request[i].lock = request[j].lock => i = j

(***************************************************************************)
(* saadt.util.mputils: a ProcessExecutor puts the prepared items and then  *)
(* one None for each worker on the dispatch queue and collects results     *)
(* from the finished queue until every worker has posted its None.  Each   *)
(* BaseWorker process runs a loop that takes a thread slot from its        *)
(* processing_queue, takes an item from the dispatch queue and submits it  *)
(* to its thread pool; the thread that ran the item puts the slot back.    *)
(* A multiprocessing queue hands what a process puts to a feeder thread of *)
(* that process, which writes it to the pipe shared by the processes.      *)
(***************************************************************************)

\* ProcessExecutor(max_workers=2): the number of worker processes
pool_workers == 2

MaxItems == 3

MaxThreads == 2

Workers == 1..pool_workers

\* the None that ends a worker's loop and the None a worker posts when it is done
Sentinel == 0

\* what process_item does with an item: return a result, return None, raise an Exception
Kinds == {"result", "none", "raises"}

InitWorkers ==
    /\ kinds \in UNION {[1..n -> Kinds] : n \in 0..MaxItems}
    /\ threads \in 1..MaxThreads
    /\ stop_event = FALSE
    /\ dispatch_queue = <<>>
    /\ finished_buffer = [w \in Workers |-> <<>>]
    /\ finished_queue = <<>>
    /\ processing_queue = [w \in Workers |-> [slots |-> threads, closed |-> FALSE]]
    /\ loop = [w \in Workers |-> "get_slot"]
    /\ work = [k \in DOMAIN kinds |-> [at |-> "prepared", worker |-> 0, runs |-> 0]]
    /\ logged = {}
    /\ main = [pc |-> "put", put |-> 0, nones |-> 0, running |-> 0, result |-> <<>>]
    /\ NoParser
    /\ NoRanking
    /\ NoRanker

\* __do_run: for item in self._prepare_items(): self._dispatch_queue.put(item)
PutItem ==
    /\ main.pc = "put"
    /\ main.put < Len(kinds)
    /\ dispatch_queue' = Append(dispatch_queue, main.put + 1)
    /\ work' = [work EXCEPT ![main.put + 1].at = "dispatched"]
    /\ main' = [main EXCEPT !.put = @ + 1]
    /\ UNCHANGED <<kinds, threads, stop_event, finished_buffer, finished_queue,
                   processing_queue, loop, logged>>
    /\ UNCHANGED <<parserVars, lockVars, rankVars>>

\* __do_run: for _ in self._workers: self._dispatch_queue.put(None); running = len(workers)
PutNone ==
    /\ main.pc = "put"
    /\ main.put = Len(kinds)
    /\ main.nones < pool_workers
    /\ dispatch_queue' = Append(dispatch_queue, Sentinel)
    /\ main' = IF main.nones + 1 = pool_workers
               THEN [main EXCEPT !.nones = @ + 1, !.pc = "collect", !.running = pool_workers]
               ELSE [main EXCEPT !.nones = @ + 1]
    /\ UNCHANGED <<kinds, threads, stop_event, finished_buffer, finished_queue,
                   processing_queue, loop, work, logged>>
    /\ UNCHANGED <<parserVars, lockVars, rankVars>>

\* __do_run: while running != 0: item = self._finished_queue.get() ...
Collect ==
    /\ main.pc = "collect"
    /\ main.running # 0
    /\ finished_queue # <<>>
    /\ main' = IF Head(finished_queue) = Sentinel
               THEN [main EXCEPT !.running = @ - 1]
               ELSE [main EXCEPT !.result = Append(@, Head(finished_queue))]
    /\ finished_queue' = Tail(finished_queue)
    /\ UNCHANGED <<kinds, threads, stop_event, dispatch_queue, finished_buffer,
                   processing_queue, loop, work, logged>>
    /\ UNCHANGED <<parserVars, lockVars, rankVars>>

\* run: the collecting loop is over; shutdown sets the stop event, puts a None for each
\* worker and joins the worker processes; run returns the collected results
Return ==
    /\ main.pc = "collect"
    /\ main.running = 0
    /\ \A w \in Workers : loop[w] = "exited" /\ finished_buffer[w] = <<>>
    /\ stop_event' = TRUE
    /\ dispatch_queue' = dispatch_queue \o [w \in Workers |-> Sentinel]
    /\ main' = [main EXCEPT !.pc = "returned"]
    /\ UNCHANGED <<kinds, threads, finished_buffer, finished_queue,
                   processing_queue, loop, work, logged>>
    /\ UNCHANGED <<parserVars, lockVars, rankVars>>

\* BaseWorker.run: while not self.stop_event.is_set(): self.processing_queue.get()
TakeSlot(w) ==
    /\ loop[w] = "get_slot"
    /\ ~stop_event
    /\ processing_queue[w].slots > 0
    /\ processing_queue' = [processing_queue EXCEPT ![w].slots = @ - 1]
    /\ loop' = [loop EXCEPT ![w] = "get_item"]
    /\ UNCHANGED <<kinds, threads, stop_event, dispatch_queue, finished_buffer,
                   finished_queue, work, logged, main>>
    /\ UNCHANGED <<parserVars, lockVars, rankVars>>

\* BaseWorker.run: item = self.dispatch_queue.get(); if item is None: break;
\* self.executor.submit(self._dispatch_item, item)
TakeItem(w) ==
    /\ loop[w] = "get_item"
    /\ dispatch_queue # <<>>
    /\ dispatch_queue' = Tail(dispatch_queue)
    /\ IF Head(dispatch_queue) = Sentinel
       THEN /\ loop' = [loop EXCEPT ![w] = "shutdown"]
            /\ work' = work
       ELSE /\ loop' = [loop EXCEPT ![w] = "get_slot"]
            /\ work' = [work EXCEPT ![Head(dispatch_queue)].at = "submitted",
                                    ![Head(dispatch_queue)].worker = w]
    /\ UNCHANGED <<kinds, threads, stop_event, finished_buffer, finished_queue,
                   processing_queue, logged, main>>
    /\ UNCHANGED <<parserVars, lockVars, rankVars>>

\* _dispatch_item: result = self.process_item(item); a result that is not None is put on
\* the finished queue; an Exception is logged
ProcessItem(k) ==
    /\ work[k].at = "submitted"
    /\ work' = [work EXCEPT ![k].at = "processed", ![k].runs = @ + 1]
    /\ finished_buffer' = IF kinds[k] = "result"
                          THEN [finished_buffer EXCEPT ![work[k].worker] = Append(@, k)]
                          ELSE finished_buffer
    /\ logged' = IF kinds[k] = "raises" THEN logged \cup {k} ELSE logged
    /\ UNCHANGED <<kinds, threads, stop_event, dispatch_queue, finished_queue,
                   processing_queue, loop, main>>
    /\ UNCHANGED <<parserVars, lockVars, rankVars>>

\* _dispatch_item: self.processing_queue.put(threading.get_ident()); put on a queue that
\* was closed raises ValueError and the future of the item ends with it
ReturnSlot(k) ==
    /\ work[k].at = "processed"
    /\ IF processing_queue[work[k].worker].closed
       THEN /\ work' = [work EXCEPT ![k].at = "slot_lost"]
            /\ processing_queue' = processing_queue
       ELSE /\ work' = [work EXCEPT ![k].at = "slot_returned"]
            /\ processing_queue' = [processing_queue EXCEPT ![work[k].worker].slots = @ + 1]
    /\ UNCHANGED <<kinds, threads, stop_event, dispatch_queue, finished_buffer,
                   finished_queue, loop, logged, main>>
    /\ UNCHANGED <<parserVars, lockVars, rankVars>>

\* shutdown: self.executor.shutdown(False); self.processing_queue.close();
\* self.processing_queue.join_thread()
CloseQueue(w) ==
    /\ loop[w] = "shutdown"
    /\ processing_queue' = [processing_queue EXCEPT ![w].closed = TRUE]
    /\ loop' = [loop EXCEPT ![w] = "wait_threads"]
    /\ UNCHANGED <<kinds, threads, stop_event, dispatch_queue, finished_buffer,
                   finished_queue, work, logged, main>>
    /\ UNCHANGED <<parserVars, lockVars, rankVars>>

\* the items a thread of worker w is still running
InFlight(w) == {k \in DOMAIN work : work[k].worker = w /\ work[k].at \in {"submitted", "processed"}}

\* shutdown: self.executor.shutdown(True); self.finished_queue.put(None)
PostNone(w) ==
    /\ loop[w] = "wait_threads"
    /\ InFlight(w) = {}
    /\ finished_buffer' = [finished_buffer EXCEPT ![w] = Append(@, Sentinel)]
    /\ loop' = [loop EXCEPT ![w] = "exited"]
    /\ UNCHANGED <<kinds, threads, stop_event, dispatch_queue, finished_queue,
                   processing_queue, work, logged, main>>
    /\ UNCHANGED <<parserVars, lockVars, rankVars>>

\* the feeder thread of worker w writes the oldest object it holds to the pipe
Feed(w) ==
    /\ finished_buffer[w] # <<>>
    /\ finished_queue' = Append(finished_queue, Head(finished_buffer[w]))
    /\ finished_buffer' = [finished_buffer EXCEPT ![w] = Tail(@)]
    /\ UNCHANGED <<kinds, threads, stop_event, dispatch_queue, processing_queue,
                   loop, work, logged, main>>
    /\ UNCHANGED <<parserVars, lockVars, rankVars>>

NextWorkers ==
    \/ PutItem
    \/ PutNone
    \/ Collect
    \/ Return
    \/ \E w \in Workers : TakeSlot(w)
    \/ \E w \in Workers : TakeItem(w)
    \/ \E k \in DOMAIN work : ProcessItem(k)
    \/ \E k \in DOMAIN work : ReturnSlot(k)
    \/ \E w \in Workers : CloseQueue(w)
    \/ \E w \in Workers : PostNone(w)
    \/ \E w \in Workers : Feed(w)

SpecWorkers == InitWorkers /\ [][NextWorkers]_vars

\* the items whose _dispatch_item has ended
Ended == {k \in DOMAIN work : work[k].at \in {"slot_returned", "slot_lost"}}

\* the number of times k occurs in the sequence s
CountIn(s, k) == Cardinality({n \in DOMAIN s : s[n] = k})

\* C28 (delivery): when run has returned, every item was processed exactly once, every
\* worker has left its loop, and the returned list holds each item whose process_item
\* returned a result exactly once and nothing else, whatever number of items raised.
C28_ResultsDelivered ==
    main.pc = "returned" =>
        /\ \A k \in DOMAIN work : work[k].runs = 1
        /\ \A k \in DOMAIN work : CountIn(main.result, k) = IF kinds[k] = "result" THEN 1 ELSE 0
        /\ \A w \in Workers : loop[w] = "exited"

\* C28 (delivery): run can always still return: a state in which nothing can happen is a
\* state in which run has returned.
C28_RunCanReturn == main.pc = "returned" \/ ENABLED NextWorkers

\* C28: an item whose process_item raised an Exception is logged and its thread slot is
\* put back on processing_queue, and the other items are processed once and their
\* results returned by run.
C28_RaisingItemLoggedAndSlotReturned ==
    /\ \A k \in Ended : kinds[k] = "raises" => k \in logged /\ work[k].at = "slot_returned"
    /\ C28_ResultsDelivered

\* an item raised, the others were delivered and run has returned
C28_Witness ==
    /\ main.pc = "returned"
    /\ \E k \in DOMAIN work : kinds[k] = "raises"
    /\ \E k \in DOMAIN work : kinds[k] = "result"

\* the slot the run loop of worker w took from processing_queue and did not hand to a thread
Held(w) == IF loop[w] = "get_slot" THEN 0 ELSE 1

\* C29: a worker never runs more items than it has threads, and an item is taken off the
\* dispatch queue only by a loop that holds a slot.
C29_AtMostNInFlight == \A w \in Workers : Cardinality(InFlight(w)) <= threads

\* C29: in every worker the slots in processing_queue, the items in flight and the slot
\* held by the run loop add up to the number of threads.
C29_SlotsAddUp ==
    \A w \in Workers : processing_queue[w].slots + Cardinality(InFlight(w)) + Held(w) = threads

(***************************************************************************)
(* saadt.links.ranking.ranker: rank_links submits, for each phase in turn, *)
(* one call of _rank_link for every prepared link to the thread pool of    *)
(* the Ranker, waits for all of them and takes their results; _rank_link   *)
(* leaves a link with a score below 0 alone and otherwise prepares the     *)
(* context of the phase and evaluates the rules of the phase in order.     *)
(* random.shuffle only decides which link is which index of prepared.      *)
(***************************************************************************)

MaxRanked == 3

\* a rule: its score and what it can leave in ctx.score_modifier when it holds
Rule(score, modifiers) == [score |-> score, modifiers |-> modifiers]

\* the rules of each phase: GithubWiki and the extension of GithubRepo, the failed
\* request, and LocationInPaper, which can set its score_modifier to 5
Phases == << <<Rule(-5, {0}), Rule(2, {0})>>, <<Rule(-20, {0})>>, <<Rule(10, {0, 5})>> >>

\* the future came to an end although the call is still running
CompletedWhenStarted(f) == f.state # "pending"

\* Future.done(): the call returned or raised
Completed(f) == f.state \in {"done", "raised"}

\* the futures rank_links submitted for its current phase
Current == {f \in DOMAIN futures : futures[f].phase = phase_index}

RECURSIVE InsertByScore(_, _)
\* sorted(..., key=score, reverse=True) is stable: a link goes after the links
\* already placed whose score is not below its own
InsertByScore(s, i) ==
    IF s = <<>> THEN <<i>>
    ELSE IF rlinks[Head(s)].score >= rlinks[i].score
         THEN <<Head(s)>> \o InsertByScore(Tail(s), i)
         ELSE <<i>> \o s

RECURSIVE SortedByScore(_)
SortedByScore(n) == IF n = 0 THEN <<>> ELSE InsertByScore(SortedByScore(n - 1), n)

InitRank ==
    /\ rlinks \in {[i \in 1..n |-> [score |-> 0, breakdown |-> <<>>]] : n \in 1..MaxRanked}
    /\ futures = <<>>
    /\ phase_index = 1
    /\ rank = "submit"
    /\ skipped = [i \in DOMAIN rlinks |-> <<>>]
    /\ ranked = <<>>
    /\ NoParser
    /\ NoRanking
    /\ NoPool

\* rank_links: futures = [self.executor.submit(self._rank_link, phase, ...) for ... in prepared]
Submit ==
    /\ rank = "submit"
    /\ futures' = futures \o [i \in DOMAIN rlinks |->
                                 [phase |-> phase_index, link |-> i, state |-> "pending", rule |-> 0]]
    /\ skipped' = [i \in DOMAIN rlinks |->
                      IF skipped[i] = <<>> /\ rlinks[i].score < 0 THEN <<rlinks[i]>> ELSE skipped[i]]
    /\ rank' = "wait"
    /\ UNCHANGED <<rlinks, phase_index, ranked>>
    /\ UNCHANGED <<parserVars, lockVars, poolVars>>

\* a free thread of the pool takes the oldest pending call; _rank_link returns at once for
\* a score below 0, and otherwise phase.prepare returns the context or raises
StartFuture(f) ==
    /\ futures[f].state = "pending"
    /\ \A g \in 1..(f - 1) : futures[g].state # "pending"
    /\ Cardinality({g \in DOMAIN futures : futures[g].state = "running"}) < max_workers
    /\ IF rlinks[futures[f].link].score < 0
       THEN futures' = [futures EXCEPT ![f].state = "done"]
       ELSE \E raises \in BOOLEAN :
                futures' = [futures EXCEPT ![f].state = IF raises THEN "raised" ELSE "running",
                                           ![f].rule = 1]
    /\ UNCHANGED <<rlinks, phase_index, rank, skipped, ranked>>
    /\ UNCHANGED <<parserVars, lockVars, poolVars>>

\* _rank_link: one turn of the loop over phase.rules()
EvalRule(f) ==
    /\ futures[f].state = "running"
    /\ LET rules == Phases[futures[f].phase]
           rule == futures[f].rule
           i == futures[f].link
       IN /\ \E hit \in BOOLEAN : \E score_modifier \in rules[rule].modifiers :
                 rlinks' = IF hit
                           THEN [rlinks EXCEPT
                                    ![i].score = @ + rules[rule].score + score_modifier,
                                    ![i].breakdown = Append(@, [name |-> <<futures[f].phase, rule>>,
                                                                value |-> rules[rule].score + score_modifier])]
                           ELSE rlinks
          /\ futures' = [futures EXCEPT ![f].rule = rule + 1,
                                        ![f].state = IF rule = Len(rules) THEN "done" ELSE "running"]
    /\ UNCHANGED <<phase_index, rank, skipped, ranked>>
    /\ UNCHANGED <<parserVars, lockVars, poolVars>>

\* rank_links: concurrent.futures.wait(futures); for fut in futures: fut.result(); then the
\* next phase, or the links sorted by score when there is none
Wait ==
    /\ rank = "wait"
    /\ \A f \in Current : Completed(futures[f])
    /\ IF \E f \in Current : futures[f].state = "raised"
       THEN /\ rank' = "raised"
            /\ UNCHANGED <<phase_index, ranked>>
       ELSE IF phase_index = Len(Phases)
            THEN /\ rank' = "returned"
                 /\ ranked' = SortedByScore(Len(rlinks))
                 /\ UNCHANGED phase_index
            ELSE /\ rank' = "submit"
                 /\ phase_index' = phase_index + 1
                 /\ UNCHANGED ranked
    /\ UNCHANGED <<rlinks, futures, skipped>>
    /\ UNCHANGED <<parserVars, lockVars, poolVars>>

NextRank ==
    \/ Submit
    \/ \E f \in DOMAIN futures : StartFuture(f)
    \/ \E f \in DOMAIN futures : EvalRule(f)
    \/ Wait

SpecRank == InitRank /\ [][NextRank]_vars

\* C30: a link whose score was below 0 when a phase began keeps the score and the
\* breakdown it had then, through that phase and every later one, and no call of
\* _rank_link for a phase has started while a call for an earlier phase has not ended.
C30_NegativeSkippedAndPhasesInTurn ==
    /\ \A i \in DOMAIN rlinks : skipped[i] # <<>> => rlinks[i] = skipped[i][1]
    /\ \A f, g \in DOMAIN futures :
           (futures[f].phase < futures[g].phase /\ futures[g].state # "pending")
               => futures[f].state \in {"done", "raised"}

\* rank_links returned; one link went below 0 in the first phase and was left alone by
\* the later ones while another link was evaluated by the last phase
C30_Witness ==
    /\ rank = "returned"
    /\ \E i, j \in DOMAIN rlinks :
           /\ skipped[i] # <<>>
           /\ \A n \in DOMAIN rlinks[i].breakdown : rlinks[i].breakdown[n].name[1] = 1
           /\ \E n \in DOMAIN rlinks[j].breakdown : rlinks[j].breakdown[n].name[1] = Len(Phases)

=============================================================================
